---- MODULE Spec2Model ----
(***************************************************************************)
(* Model of rapidx: the shrinkers of package gen, the property runner of   *)
(* package prop (sequential and parallel) and the command-sequence         *)
(* generator of package quick.                                             *)
(***************************************************************************)
EXTENDS Integers, Sequences, FiniteSets, Bags, TLC

(***************************************************************************)
(* Bounds of the model.                                                    *)
(***************************************************************************)
\* integer shrinker harness: ranges [lo, hi] with -MaxMag <= lo <= hi <= MaxMag
MaxMag == 3
\* longest start string
MaxStrLen == 2
\* longest generated command sequence
MaxCmdLen == 3
\* command values are drawn from IntRange(0, CmdMag)
CmdMag == 2
\* longest start slice / array
MaxSliceLen == 2
\* number of symbols of the string alphabet (symbol 1 is alphabet[0])
AlphaSize == 2
\* element generator of SliceOf / ArrayOf is IntRange(-ElemMag, ElemMag)
ElemMag == 1
\* property runner: cfg.Examples in 0..MaxExamples
MaxExamples == 2
\* property runner: cfg.MaxShrink in 0..MaxShrinkBound
MaxShrinkBound == 2
\* property runner: cfg.Parallelism in 1..MaxPar
MaxPar == 2
\* property runner: the generators under test draw from IntRange(0, GenMax)
GenMax == 2
\* property runner: cfg.Seed in 0..MaxSeed, the clock reads 1..MaxSeed+1
MaxSeed == 1

(***************************************************************************)
(* Program constants.                                                      *)
(***************************************************************************)
\* number of successive bisections pushed by growNeighbors
BisectRounds == 8

ShrinkStrategyBFS == "bfs"
ShrinkStrategyDFS == "dfs"

(***************************************************************************)
(* Sequencing of statements: Let(e, LAMBDA v : body) is "v := e; body".    *)
(* It evaluates e once and binds its value.                                *)
(***************************************************************************)
Let(e, F(_)) == CHOOSE r \in {F(v) : v \in {e}} : TRUE

(***************************************************************************)
(* Integer helpers (gen/int.go).                                           *)
(***************************************************************************)
\* Go's integer division by 2 truncates toward zero
quo2(d) == IF d >= 0 THEN d \div 2 ELSE -((-d) \div 2)

\* a clamp that returns the lower bound for every value
clamp_toMin(x, min, max) == min

clamp(x, min, max) == IF x < min THEN min ELSE IF x > max THEN max ELSE x

shrinkTarget(min, max) ==
  IF min <= 0 /\ 0 <= max THEN 0 ELSE IF min > 0 THEN min ELSE max

midpointTowards(a, b) ==
  IF a = b THEN a
  ELSE Let(b - a, LAMBDA d :
       Let(quo2(d), LAMBDA step :
       a + (IF step = 0 THEN (IF d > 0 THEN 1 ELSE -1) ELSE step)))

stepTowards(a, b) == IF a = b THEN a ELSE IF b > a THEN a + 1 ELSE a - 1

(***************************************************************************)
(* The strategy register and the frontier pop shared by all queue-based    *)
(* shrinkers.  A shrinker state is a record with at least the fields       *)
(* cur, last, queue, seen, out, ok; out/ok hold the last result of step.   *)
(***************************************************************************)
SetShrinkStrategyOf(s) ==
  IF s = ShrinkStrategyDFS THEN ShrinkStrategyDFS ELSE ShrinkStrategyBFS

\* pop of the shrinker closures: the strategy register is read at the call
pop(s, strat, zero) ==
  IF Len(s.queue) = 0 THEN [s EXCEPT !.out = zero, !.ok = FALSE]
  ELSE IF strat = ShrinkStrategyDFS
       THEN [s EXCEPT !.out = s.queue[Len(s.queue)],
                      !.queue = SubSeq(s.queue, 1, Len(s.queue) - 1),
                      !.ok = TRUE]
       ELSE [s EXCEPT !.out = Head(s.queue), !.queue = Tail(s.queue), !.ok = TRUE]

(***************************************************************************)
(* Signed integer shrinker (intShrinkInit; int64ShrinkInit is the same     *)
(* code at width 64).                                                      *)
(***************************************************************************)
\* push that forgets to record the candidate in the dedup set
intPush_noDedup(s, x) ==
  IF x < s.min \/ x > s.max THEN s
  ELSE [s EXCEPT !.queue = Append(@, x)]

intPush(s, x) ==
  IF x < s.min \/ x > s.max THEN s
  ELSE IF x \in s.seen THEN s
  ELSE [s EXCEPT !.seen = @ \cup {x}, !.queue = Append(@, x)]

\* for i := 0; i < 8; i++ { if series == target { break }; ... }
RECURSIVE intBisect(_, _, _, _, _)
intBisect(s, base, target, series, i) ==
  IF i >= BisectRounds \/ series = target THEN s
  ELSE Let(midpointTowards(series, target), LAMBDA nx :
       Let(IF nx # base THEN intPush(s, nx) ELSE s, LAMBDA s1 :
       intBisect(s1, base, target, nx, i + 1)))

growNeighbors(s, base) ==
  Let(shrinkTarget(s.min, s.max), LAMBDA target :
  Let([s EXCEPT !.queue = <<>>], LAMBDA s0 :
  Let(IF base # target THEN intPush(s0, target) ELSE s0, LAMBDA s1 :
  Let(midpointTowards(base, target), LAMBDA next :
  Let(IF base # target
      THEN intBisect(IF next # base THEN intPush(s1, next) ELSE s1,
                     base, target, next, 0)
      ELSE s1, LAMBDA s2 :
  Let(stepTowards(base, target), LAMBDA st :
  Let(IF base # target /\ st # base THEN intPush(s2, st) ELSE s2, LAMBDA s3 :
  Let(IF base # s.min THEN intPush(s3, s.min) ELSE s3, LAMBDA s4 :
  IF base # s.max THEN intPush(s4, s.max) ELSE s4))))))))

intShrinkInit(start, min, max) ==
  Let(clamp(start, min, max), LAMBDA c :
  growNeighbors([kind |-> "int", cur |-> c, last |-> c, queue |-> <<>>,
                 seen |-> {c}, min |-> min, max |-> max,
                 out |-> c, ok |-> TRUE], c))

intStep(s, accept, strat) ==
  Let(IF accept /\ s.last # s.cur
      THEN growNeighbors([s EXCEPT !.cur = s.last], s.last)
      ELSE s, LAMBDA r :
  Let(pop(r, strat, 0), LAMBDA p :
  IF p.ok THEN [p EXCEPT !.last = p.out] ELSE p))

(***************************************************************************)
(* Unsigned integer shrinker (uintShrinkInit): target fixed to 0.          *)
(***************************************************************************)
\* for i := 0; i < 8 && series > 0; i++ { series /= 2; push(series) }
RECURSIVE uintBisect(_, _, _)
uintBisect(s, series, i) ==
  IF i >= BisectRounds \/ ~(series > 0) THEN s
  ELSE Let(series \div 2, LAMBDA nx :
       Let(intPush(s, nx), LAMBDA s1 :
       uintBisect(s1, nx, i + 1)))

uintGrow(s, base) ==
  Let([s EXCEPT !.queue = <<>>], LAMBDA s0 :
  Let(IF base # 0 THEN intPush(s0, 0) ELSE s0, LAMBDA s1 :
  Let(base \div 2, LAMBDA next :
  Let(IF base # 0
      THEN uintBisect(IF next # base THEN intPush(s1, next) ELSE s1, next, 0)
      ELSE s1, LAMBDA s2 :
  Let(IF base > 0 THEN intPush(s2, base - 1) ELSE s2, LAMBDA s3 :
  Let(IF base # s.min THEN intPush(s3, s.min) ELSE s3, LAMBDA s4 :
  IF base # s.max THEN intPush(s4, s.max) ELSE s4))))))

uintShrinkInit(start, min, max) ==
  Let(clamp(start, min, max), LAMBDA c :
  uintGrow([kind |-> "uint", cur |-> c, last |-> c, queue |-> <<>>,
            seen |-> {c}, min |-> min, max |-> max,
            out |-> c, ok |-> TRUE], c))

uintStep(s, accept, strat) ==
  Let(IF accept /\ s.last # s.cur
      THEN uintGrow([s EXCEPT !.cur = s.last], s.last)
      ELSE s, LAMBDA r :
  Let(pop(r, strat, 0), LAMBDA p :
  IF p.ok THEN [p EXCEPT !.last = p.out] ELSE p))

(***************************************************************************)
(* Bool shrinker (Bool).                                                   *)
(***************************************************************************)
\* a push that does not consult the dedup set
boolPush_noDedup(s, b) ==
  [s EXCEPT !.seen = @ \cup {b}, !.queue = Append(@, b)]

boolPush(s, b) ==
  IF b \in s.seen THEN s
  ELSE [s EXCEPT !.seen = @ \cup {b}, !.queue = Append(@, b)]

boolGrow(s, base) ==
  Let([s EXCEPT !.queue = <<>>], LAMBDA s0 :
  Let(IF base THEN boolPush(s0, FALSE) ELSE s0, LAMBDA s1 :
  IF ~base THEN boolPush(s1, TRUE) ELSE s1))

boolShrinkInit(v) ==
  boolGrow([kind |-> "bool", cur |-> v, last |-> v, queue |-> <<>>,
            seen |-> {v}, out |-> v, ok |-> TRUE], v)

boolStep(s, accept, strat) ==
  Let(IF accept /\ s.last # s.cur
      THEN boolGrow([s EXCEPT !.cur = s.last], s.last)
      ELSE s, LAMBDA r :
  Let(pop(r, strat, FALSE), LAMBDA p :
  IF p.ok THEN [p EXCEPT !.last = p.out] ELSE p))

(***************************************************************************)
(* String shrinker (String).  A string is a sequence of symbols 1..n of    *)
(* the alphabet; symbol 1 is alphabet[0].  last starts as "".              *)
(***************************************************************************)
strPush(s, x) ==
  IF x \in s.seen THEN s
  ELSE [s EXCEPT !.seen = @ \cup {x}, !.queue = Append(@, x)]

\* (1) every strict prefix, longest first
RECURSIVE strPrefixes(_, _, _)
strPrefixes(s, base, newLen) ==
  IF newLen < 0 THEN s
  ELSE Let(strPush(s, SubSeq(base, 1, newLen)), LAMBDA s1 :
       strPrefixes(s1, base, newLen - 1))

\* (2) one replacement by alphabet[0] per position, right to left
\*     (i is the 0-based index of the source)
RECURSIVE strTame(_, _, _)
strTame(s, base, i) ==
  IF i < 0 THEN s
  ELSE Let(IF base[i + 1] # 1
           THEN strPush(s, [base EXCEPT ![i + 1] = 1])
           ELSE s, LAMBDA s1 :
       strTame(s1, base, i - 1))

strGrowNeighbors(s, base) ==
  Let([s EXCEPT !.queue = <<>>], LAMBDA s0 :
  Let(IF Len(base) > 0 THEN strPrefixes(s0, base, Len(base) - 1) ELSE s0, LAMBDA s1 :
  IF Len(base) > 0 THEN strTame(s1, base, Len(base) - 1) ELSE s1))

stringShrinkInit(v) ==
  strGrowNeighbors([kind |-> "string", cur |-> v, last |-> <<>>, queue |-> <<>>,
                    seen |-> {v}, out |-> v, ok |-> TRUE], v)

\* a step that rebases on last even when last is still ""
stringStep_rebaseOnEmpty(s, accept, strat) ==
  Let(IF accept /\ s.last # s.cur
      THEN strGrowNeighbors([s EXCEPT !.cur = s.last], s.last)
      ELSE s, LAMBDA r :
  Let(pop(r, strat, <<>>), LAMBDA p :
  IF p.ok THEN [p EXCEPT !.last = p.out] ELSE p))

stringStep(s, accept, strat) ==
  Let(IF accept /\ s.last # <<>> /\ s.last # s.cur
      THEN strGrowNeighbors([s EXCEPT !.cur = s.last], s.last)
      ELSE s, LAMBDA r :
  Let(pop(r, strat, <<>>), LAMBDA p :
  IF p.ok THEN [p EXCEPT !.last = p.out] ELSE p))

(***************************************************************************)
(* Slices.  A Go slice is a record [nil, e]: a nil slice and an empty      *)
(* non-nil slice have the same elements but different %#v renderings.      *)
(***************************************************************************)
NilSlice == [nil |-> TRUE, e |-> <<>>]

\* make([]T, 0, ...) followed by appends, or a literal: never nil
mkSlice(e) == [nil |-> FALSE, e |-> e]

\* append(([]T)(nil), s...): nil when s has no element
cloneSlice(s) == IF Len(s.e) = 0 THEN NilSlice ELSE [nil |-> FALSE, e |-> s.e]

\* fmt.Sprintf("%#v", s): "[]int(nil)" is <<1>>, "[]int{a, b}" is <<0, a, b>>
sig(s) == IF s.nil THEN <<1>> ELSE <<0>> \o s.e

\* rem(base, i, j): base without the 0-based interval [i, j)
rem(base, i, j) == mkSlice(SubSeq(base.e, 1, i) \o SubSeq(base.e, j + 1, Len(base.e)))

slicePush(s, x) ==
  IF sig(x) \in s.seen THEN s
  ELSE [s EXCEPT !.seen = @ \cup {sig(x)}, !.queue = Append(@, cloneSlice(x))]

\* inner loop of the block removals: for i := 0; i+chunk <= L; i += chunk
RECURSIVE sliceBlockRow(_, _, _, _)
sliceBlockRow(s, base, chunk, i) ==
  IF i + chunk > Len(base.e) THEN s
  ELSE Let(slicePush(s, rem(base, i, i + chunk)), LAMBDA s1 :
       sliceBlockRow(s1, base, chunk, i + chunk))

\* outer loop: for chunk >= 1 { ...; chunk /= 2 }
RECURSIVE sliceBlocks(_, _, _)
sliceBlocks(s, base, chunk) ==
  IF chunk < 1 THEN s
  ELSE Let(sliceBlockRow(s, base, chunk, 0), LAMBDA s1 :
       sliceBlocks(s1, base, chunk \div 2))

RECURSIVE sliceSingles(_, _, _)
sliceSingles(s, base, i) ==
  IF i < 0 THEN s
  ELSE Let(slicePush(s, rem(base, i, i + 1)), LAMBDA s1 :
       sliceSingles(s1, base, i - 1))

\* the shrinker of the element generator of docs/examples: halve towards 0,
\* whatever the accept flag
halfInit(v) == [kind |-> "half", cur |-> v, out |-> v, ok |-> TRUE]

halfStep(s) ==
  IF s.cur = 0 THEN [s EXCEPT !.out = 0, !.ok = FALSE]
  ELSE Let(quo2(s.cur), LAMBDA c : [s EXCEPT !.cur = c, !.out = c, !.ok = TRUE])

\* a call of the shrinker of one element
elemStep(es, accept, strat) ==
  IF es.kind = "half" THEN halfStep(es) ELSE intStep(es, accept, strat)

\* one step(false) of the element shrinker of each position, right to left;
\* a nil element shrinker is <<>>, a live one is <<state>>
RECURSIVE elemRefine(_, _, _, _)
elemRefine(s, base, i, strat) ==
  IF i < 0 THEN s
  ELSE Let(s, LAMBDA s0 :
       IF s0.shks[i + 1] = <<>> THEN elemRefine(s0, base, i - 1, strat)
       ELSE Let(elemStep(s0.shks[i + 1][1], FALSE, strat), LAMBDA es :
            Let([s0 EXCEPT !.shks[i + 1] = <<es>>], LAMBDA s1 :
            Let(IF es.ok
                THEN slicePush(s1, mkSlice([base.e EXCEPT ![i + 1] = es.out]))
                ELSE s1, LAMBDA s2 :
            elemRefine(s2, base, i - 1, strat)))))

sliceGrowNeighbors(s, base, strat) ==
  Let([s EXCEPT !.queue = <<>>], LAMBDA s0 :
  Let(Len(base.e), LAMBDA L :
  IF L = 0 THEN s0
  ELSE Let(sliceBlocks(s0, base, L \div 2), LAMBDA s1 :
       Let(sliceSingles(s1, base, L - 1), LAMBDA s2 :
       elemRefine(s2, base, L - 1, strat)))))

\* vals are the generated elements, each from IntRange(emin, emax)
SliceOf(vals, emin, emax, strat) ==
  Let(cloneSlice(mkSlice(vals)), LAMBDA c :
  sliceGrowNeighbors(
    [kind |-> "slice", cur |-> c, last |-> NilSlice, queue |-> <<>>,
     seen |-> {sig(c)},
     shks |-> [i \in 1..Len(vals) |-> <<intShrinkInit(vals[i], emin, emax)>>],
     out |-> c, ok |-> TRUE], c, strat))

\* vals are the generated elements, each with the halving shrinker
SliceOfFrom(vals, strat) ==
  Let(cloneSlice(mkSlice(vals)), LAMBDA c :
  sliceGrowNeighbors(
    [kind |-> "slice", cur |-> c, last |-> NilSlice, queue |-> <<>>,
     seen |-> {sig(c)},
     shks |-> [i \in 1..Len(vals) |-> <<halfInit(vals[i])>>],
     out |-> c, ok |-> TRUE], c, strat))

\* a step that never rebases on the accepted candidate
sliceStep_noRebase(s, accept, strat) ==
  Let(pop(s, strat, NilSlice), LAMBDA p :
  IF p.ok THEN [p EXCEPT !.last = p.out] ELSE p)

sliceStep(s, accept, strat) ==
  Let(IF accept /\ ~s.last.nil /\ sig(s.last) # sig(s.cur)
      THEN sliceGrowNeighbors(
             [s EXCEPT !.cur = s.last,
                       !.shks = [i \in 1..Len(s.last.e) |-> <<>>]],
             s.last, strat)
      ELSE s, LAMBDA r :
  Let(pop(r, strat, NilSlice), LAMBDA p :
  IF p.ok THEN [p EXCEPT !.last = p.out] ELSE p))

(***************************************************************************)
(* ArrayOf: fixed length, only per-position refinements.                   *)
(***************************************************************************)
arrayGrow(s, base, strat) ==
  elemRefine([s EXCEPT !.queue = <<>>], base, Len(base.e) - 1, strat)

ArrayOf(vals, emin, emax, strat) ==
  Let(mkSlice(vals), LAMBDA c :
  arrayGrow(
    [kind |-> "array", cur |-> c, last |-> NilSlice, queue |-> <<>>,
     seen |-> {sig(c)},
     shks |-> [i \in 1..Len(vals) |-> <<intShrinkInit(vals[i], emin, emax)>>],
     out |-> c, ok |-> TRUE], c, strat))

arrayStep(s, accept, strat) ==
  Let(IF accept /\ ~s.last.nil /\ sig(s.last) # sig(s.cur)
      THEN arrayGrow(
             [s EXCEPT !.cur = s.last,
                       !.shks = [i \in 1..Len(s.shks) |-> <<>>]],
             s.last, strat)
      ELSE s, LAMBDA r :
  Let(pop(r, strat, NilSlice), LAMBDA p :
  IF p.ok THEN [p EXCEPT !.last = p.out] ELSE p))

(***************************************************************************)
(* Shrinker of commandSequenceGenerator.Generate (quick).  commands and    *)
(* shrinkers are the closure's captured slices; no statement of the        *)
(* closure assigns to them.                                                *)
(***************************************************************************)
\* Strategy 2: for i := len(commands)-1; i >= 0; i-- (i is 0-based)
RECURSIVE cmdShrinkEach(_, _, _, _)
cmdShrinkEach(c, i, accept, strat) ==
  IF i < 0 THEN [c EXCEPT !.out = c.commands, !.ok = FALSE]
  ELSE Let(c, LAMBDA c0 :
       Let(intStep(c0.shrinkers[i + 1], accept, strat), LAMBDA es :
       Let([c0 EXCEPT !.shrinkers[i + 1] = es], LAMBDA c1 :
       IF es.ok
       THEN [c1 EXCEPT !.out = [c0.commands EXCEPT ![i + 1] = es.out], !.ok = TRUE]
       ELSE cmdShrinkEach(c1, i - 1, accept, strat))))

cmdSeqStep(c, accept, strat) ==
  IF Len(c.commands) > 0
  THEN \* Strategy 1: remove the last command
       [c EXCEPT !.out = SubSeq(c.commands, 1, Len(c.commands) - 1), !.ok = TRUE]
  ELSE cmdShrinkEach(c, Len(c.commands) - 1, accept, strat)

\* the (sequence, shrinker) pair returned by Generate for the drawn commands
cmdSeqGenerate(cmds) ==
  [commands |-> cmds,
   shrinkers |-> [i \in 1..Len(cmds) |-> intShrinkInit(cmds[i], 0, CmdMag)],
   out |-> cmds, ok |-> TRUE]

(***************************************************************************)
(* Dispatch of step over the queue-based shrinkers.                        *)
(***************************************************************************)
Step(s, accept, strat) ==
  CASE s.kind = "int"    -> intStep(s, accept, strat)
    [] s.kind = "uint"   -> uintStep(s, accept, strat)
    [] s.kind = "bool"   -> boolStep(s, accept, strat)
    [] s.kind = "string" -> stringStep(s, accept, strat)
    [] s.kind = "slice"  -> sliceStep(s, accept, strat)
    [] s.kind = "array"  -> arrayStep(s, accept, strat)

(***************************************************************************)
(* State.                                                                  *)
(***************************************************************************)
VARIABLES
  shrinkStrategy,  \* the process-wide strategy register of package gen
  sk,              \* a shrinker under test: its state, what it yielded so far
  cs,              \* a command-sequence shrinker under test
  cfg,             \* the Config handed to ForAll
  prop,            \* the generator and the body handed to ForAll
  seed,            \* ForAll: the effective seed
  rng,             \* ForAll: r, the *rand.Rand shared by every Generate call
  tape,            \* the numbers each seed's source has produced so far
  ctl,             \* the goroutine that called ForAll: position and locals
  wk,              \* runParallel: the workers' positions and locals
  testChan,        \* runParallel: the (closed) channel of example indices
  failureChan,     \* runParallel: the channel of failureResult
  randMutex,       \* runParallel: 0 when free, else the worker holding it
  obs,             \* what the host harness has seen of the current run
  prev             \* what it saw of the previous run of the same property

\* the variables of the property runner
rvars == <<cfg, prop, seed, rng, tape, ctl, wk, testChan, failureChan,
           randMutex, obs, prev>>

vars == <<shrinkStrategy, sk, cs, cfg, prop, seed, rng, tape, ctl, wk, testChan,
          failureChan, randMutex, obs, prev>>

\* value of the variables of a component that does not take part in a run
Idle == [kind |-> "idle"]

\* no property is being run
RunnerOff ==
  /\ cfg = Idle /\ prop = Idle /\ seed = 0 /\ rng = Idle /\ tape = <<>>
  /\ ctl = Idle /\ wk = <<>> /\ testChan = <<>> /\ failureChan = Idle
  /\ randMutex = 0 /\ obs = Idle /\ prev = Idle

(***************************************************************************)
(* Shrinkers driven by an arbitrary caller: any start value, any sequence  *)
(* of accept flags, the register possibly rewritten between two steps.     *)
(***************************************************************************)
\* the values of a sequence
Range(q) == {q[i] : i \in 1..Len(q)}

SeqsUpTo(S, n) == UNION {[1..k -> S] : k \in 0..n}

Strategies == {ShrinkStrategyBFS, ShrinkStrategyDFS}

Harness(s) == [sh |-> s, start |-> s.cur, calls |-> 0, yielded |-> <<>>, done |-> FALSE,
               accepts |-> {}, strats |-> {}]

IntRanges(lo, hi) == {r \in (lo..hi) \X (lo..hi) : r[1] <= r[2]}

InitShrink ==
  /\ shrinkStrategy \in Strategies
  /\ cs = Idle
  /\ RunnerOff
  /\ \/ \E v \in -MaxMag..MaxMag, r \in IntRanges(-MaxMag, MaxMag) :
          sk = Harness(intShrinkInit(v, r[1], r[2]))
     \/ \E v \in 0..MaxMag, r \in IntRanges(0, MaxMag) :
          sk = Harness(uintShrinkInit(v, r[1], r[2]))
     \/ \E b \in BOOLEAN : sk = Harness(boolShrinkInit(b))
     \/ \E v \in SeqsUpTo(1..AlphaSize, MaxStrLen) : sk = Harness(stringShrinkInit(v))
     \/ \E v \in SeqsUpTo(-ElemMag..ElemMag, MaxSliceLen) :
          sk = Harness(SliceOf(v, -ElemMag, ElemMag, shrinkStrategy))
     \/ \E v \in SeqsUpTo(-ElemMag..ElemMag, MaxSliceLen) :
          sk = Harness(ArrayOf(v, -ElemMag, ElemMag, shrinkStrategy))

\* one call of the shrinker closure with the given accept flag
ShStep(accept) ==
  /\ \E n \in {Step(sk.sh, accept, shrinkStrategy)} :
       sk' = [sk EXCEPT !.sh = n,
                         !.calls = IF sk.done THEN @ ELSE @ + 1,
                         !.yielded = IF n.ok THEN Append(@, n.out) ELSE @,
                         !.done = ~n.ok,
                         !.accepts = @ \cup {accept},
                         !.strats = @ \cup {shrinkStrategy}]
  /\ UNCHANGED <<shrinkStrategy, cs>>
  /\ UNCHANGED rvars

SetShrinkStrategy(s) ==
  /\ shrinkStrategy' = SetShrinkStrategyOf(s)
  /\ UNCHANGED <<sk, cs>>
  /\ UNCHANGED rvars

StepAny == \E accept \in BOOLEAN : ShStep(accept)

NextShrink ==
  \/ StepAny
  \/ \E s \in {"bfs", "dfs", "random"} : SetShrinkStrategy(s)

SpecShrink == InitShrink /\ [][NextShrink]_vars

(***************************************************************************)
(* A SliceOf shrinker over five-element slices, driven the way the runner  *)
(* drives a shrinker whose every candidate still fails: step(true) until   *)
(* ok = false.                                                             *)
(***************************************************************************)
LongSliceLen == 5
LongSliceMag == 2

InitLong ==
  /\ shrinkStrategy \in Strategies
  /\ cs = Idle
  /\ RunnerOff
  /\ \E v \in [1..LongSliceLen -> -LongSliceMag..LongSliceMag] :
       sk = Harness(SliceOf(v, -LongSliceMag, LongSliceMag, shrinkStrategy))

StepAccepted == ShStep(TRUE)

NextLong == StepAccepted

SpecLong == InitLong /\ [][NextLong]_vars

(***************************************************************************)
(* The command-sequence shrinker driven by an arbitrary caller.            *)
(***************************************************************************)
InitCmd ==
  /\ shrinkStrategy \in Strategies
  /\ sk = Idle
  /\ RunnerOff
  /\ \E cmds \in SeqsUpTo(0..CmdMag, MaxCmdLen) :
       cs = [sh |-> cmdSeqGenerate(cmds), called |-> FALSE, accept |-> FALSE,
             done |-> FALSE]

CmdStep(accept) ==
  /\ \E n \in {cmdSeqStep(cs.sh, accept, shrinkStrategy)} :
       cs' = [cs EXCEPT !.sh = n, !.called = TRUE, !.accept = accept, !.done = ~n.ok]
  /\ UNCHANGED <<shrinkStrategy, sk>>
  /\ UNCHANGED rvars

CmdStepAny == \E accept \in BOOLEAN : CmdStep(accept)

NextCmd == CmdStepAny

SpecCmd == InitCmd /\ [][NextCmd]_vars

\* the caller keeps calling step
FairCmd == SpecCmd /\ WF_vars(CmdStepAny)

(***************************************************************************)
(* The random source.  rand.New(rand.NewSource(seed)) is a stream fixed by *)
(* its seed: tape[seed] holds the numbers the stream of that seed has      *)
(* produced so far, a source at position pos reads tape[seed][pos + 1] if  *)
(* it exists and otherwise extends the tape with any number.               *)
(***************************************************************************)
newRand(sd) == [seed |-> sd, pos |-> 0]

\* the values r.Intn(n) can return
IntnValues(rs, tp, n) ==
  IF rs.pos < Len(tp[rs.seed]) THEN {tp[rs.seed][rs.pos + 1] % n} ELSE 0..(n - 1)

\* the source and the tape after r.Intn(n) returned v
IntnRand(rs) == [rs EXCEPT !.pos = @ + 1]

IntnTape(rs, tp, v) ==
  IF rs.pos < Len(tp[rs.seed]) THEN tp ELSE [tp EXCEPT ![rs.seed] = Append(@, v)]

(***************************************************************************)
(* Generators handed to ForAll: IntRange and OneOf (Weighted with constant *)
(* weights).  Generate is the set of the outcomes [val, sh, r, tape] of one *)
(* call g.Generate(r, sz).                                                 *)
(***************************************************************************)
IntRange(min, max) ==
  [kind |-> "int",
   min |-> IF min > max THEN max ELSE min,
   max |-> IF min > max THEN min ELSE max]

OneOf(gs) == [kind |-> "weighted", gs |-> gs]

intRangeGenerate(g, rs, tp) ==
  {Let(g.min + n, LAMBDA v :
     [val |-> v, sh |-> intShrinkInit(v, g.min, g.max),
      r |-> IntnRand(rs), tape |-> IntnTape(rs, tp, n)])
   : n \in IntnValues(rs, tp, g.max - g.min + 1)}

\* a list that keeps the chosen index
weightedNeighbors_all(gs, idx) ==
  [i \in 1..Len(gs) |-> i - 1]

\* neighbors: the 0-based indices of the other generators, in order
weightedNeighbors(gs, idx) ==
  SelectSeq([i \in 1..Len(gs) |-> i - 1], LAMBDA i : i # idx)

\* val, shrink := gs[idx].Generate(r, sz) and the shrinker Weighted returns,
\* once idx was drawn
weightedValue(g, idx, rs, tp) ==
  {[val |-> o.val,
    sh |-> [kind |-> "weighted", gs |-> g.gs, idx |-> idx,
            neighbors |-> weightedNeighbors(g.gs, idx),
            shrink |-> o.sh, out |-> o.val, ok |-> TRUE],
    r |-> o.r, tape |-> o.tape]
   : o \in intRangeGenerate(g.gs[idx + 1], rs, tp)}

\* idx := r.Intn(len(gs)) followed by the generation of the value
weightedGenerate(g, rs, tp) ==
  UNION {weightedValue(g, idx, IntnRand(rs), IntnTape(rs, tp, idx))
         : idx \in IntnValues(rs, tp, Len(g.gs))}

Generate(g, rs, tp) ==
  IF g.kind = "weighted" THEN weightedGenerate(g, rs, tp)
  ELSE intRangeGenerate(g, rs, tp)

(***************************************************************************)
(* The shrinker returned by Weighted.  Both branches of the closure call   *)
(* the chosen generator's shrinker with the accept flag; when it is        *)
(* exhausted and a neighbor is left, the closure calls                     *)
(* gs[j].Generate(r, sz) on the runner's random source.                    *)
(***************************************************************************)
\* the closure up to the point where it needs the random source
weightedShrink(s, accept, strat) ==
  Let(intStep(s.shrink, accept, strat), LAMBDA n :
  IF n.ok THEN [s EXCEPT !.shrink = n, !.out = n.out, !.ok = TRUE]
  ELSE [s EXCEPT !.shrink = n, !.out = 0, !.ok = FALSE])

\* the closure is about to migrate to neighbors[0]
weightedMigrates(s) == ~s.shrink.ok /\ Len(s.neighbors) > 0

\* j := neighbors[0]; neighbors = neighbors[1:]; idx, val, shrink = j, nv, ns
weightedMigrate(s, o) ==
  [s EXCEPT !.idx = Head(s.neighbors), !.neighbors = Tail(s.neighbors),
            !.shrink = o.sh, !.out = o.val, !.ok = TRUE]

\* shrink(acceptedPrev) of the runner, up to a draw from the random source
shrinkCall(s, accept, strat) ==
  IF s.kind = "weighted" THEN weightedShrink(s, accept, strat)
  ELSE Step(s, accept, strat)

needsRand(s) == s.kind = "weighted" /\ weightedMigrates(s)

\* the outcomes [sh, r, tape] of the draw that completes a migrating call
shrinkDraw(s, rs, tp) ==
  {[sh |-> weightedMigrate(s, o), r |-> o.r, tape |-> o.tape]
   : o \in intRangeGenerate(s.gs[Head(s.neighbors) + 1], rs, tp)}

\* the outcomes [sh, r, tape] of one whole call shrink(accept)
shrinkOutcomes(s, accept, strat, rs, tp) ==
  Let(shrinkCall(s, accept, strat), LAMBDA n :
  IF needsRand(n) THEN shrinkDraw(n, rs, tp)
  ELSE {[sh |-> n, r |-> rs, tape |-> tp]})

(***************************************************************************)
(* Property runner (package prop).                                         *)
(***************************************************************************)
\* the readings time.Now().UnixNano() can give
Clock == 1..(MaxSeed + 1)

effectiveSeed_clockOnly(c, now) == now

effectiveSeed(c, now) == IF c.Seed # 0 THEN c.Seed ELSE now

\* for i := 0; i < cfg.Examples; i++
exampleLoopGuard_le(i, examples) == i <= examples

exampleLoopGuard(i, examples) == i < examples

\* for steps < cfg.MaxShrink
shrinkLoopGuard_le(steps, maxShrink) == steps <= maxShrink

shrinkLoopGuard(steps, maxShrink) == steps < maxShrink

\* fmt.Sprintf("ex#%d", i+1) and fmt.Sprintf("%s/shrink#%d", name, steps);
\* the example subtest is the name with shrink = 0
exName(i) == [ex |-> i + 1, shrink |-> 0]

shrinkName(name, steps) == [name EXCEPT !.shrink = steps]

\* the generators and bodies the runner is tried on
Generators ==
  [int |-> IntRange(0, GenMax),
   oneof |-> OneOf(<<IntRange(0, 1), IntRange(0, GenMax)>>)]

\* body(st, v) fails the subtest iff v >= prop.failFrom
bodyFails(v) == v >= prop.failFrom

\* an update that takes every candidate as the new minimum
seqAfterCandidate_anyMin(l, next, stillFails) ==
  [l EXCEPT !.steps = @ + 1,
            !.min = next,
            !.acceptedPrev = stillFails]

\* steps++ ... if stillFails { min = next; acceptedPrev = true } else
\* { acceptedPrev = false }, in runSequential
seqAfterCandidate(l, next, stillFails) ==
  [l EXCEPT !.steps = @ + 1,
            !.min = IF stillFails THEN next ELSE @,
            !.acceptedPrev = stillFails]

\* an update that leaves acceptedPrev true after a candidate that passed
parAfterCandidate_keepAccept(l, next, stillFails) ==
  [l EXCEPT !.min = IF stillFails THEN next ELSE @,
            !.acceptedPrev = TRUE]

\* if stillFails { min = next; acceptedPrev = true } else
\* { acceptedPrev = false }, in the worker of runParallel once t.Run has
\* returned; steps++ was executed before t.Run was called
parAfterCandidate(l, next, stillFails) ==
  [l EXCEPT !.min = IF stillFails THEN next ELSE @,
            !.acceptedPrev = stillFails]

\* the arguments of t.Fatalf
fatalReport(sd, examplesRun, steps, min, name) ==
  [seed |-> sd, examples_run |-> examplesRun, shrunk_steps |-> steps,
   min |-> min, replay |-> [run |-> name, seed |-> sd]]

\* wg.Wait() returns: every worker has run its deferred wg.Done()
wgWait_noWait(w) == TRUE

wgWait(w) == \A i \in DOMAIN w : w[i].pc = "done"

\* locals of the goroutine that called ForAll
CtlInit ==
  [pc |-> "idle", i |-> 0, val |-> 0, shrink |-> Idle, min |-> 0, steps |-> 0,
   acceptedPrev |-> TRUE]

\* locals of a worker goroutine; idx: the index Weighted's Generate has
\* drawn while it is between its two draws; late: the worker took testIndex
\* off the queue after a failure had been sent to failureChan
WorkerInit ==
  [pc |-> "deq", testIndex |-> 0, val |-> 0, shrink |-> Idle, min |-> 0,
   steps |-> 0, acceptedPrev |-> TRUE, idx |-> 0, late |-> FALSE]

\* runs: the subtests started (a bag of names); log: in sequential mode the
\* subtests in the order they ran; failed: the examples whose body failed;
\* vals: the value generated for each example; shrinkCalls: calls of a
\* shrinker; deq: the indices received from testChan; fatals: the t.Fatalf
\* reports
ObsInit ==
  [runs |-> EmptyBag, log |-> <<>>, failed |-> {}, vals |-> <<>>,
   shrinkCalls |-> 0, deq |-> EmptyBag, fatals |-> <<>>]

Configs ==
  [Seed : 0..MaxSeed, Examples : 0..MaxExamples, MaxShrink : 0..MaxShrinkBound,
   ShrinkStrat : Strategies, StopOnFirstFailure : BOOLEAN,
   Parallelism : 1..MaxPar]

Init ==
  /\ shrinkStrategy = ShrinkStrategyBFS
  /\ sk = Idle /\ cs = Idle
  /\ cfg \in Configs
  /\ prop \in [g : {"int", "oneof"}, failFrom : 1..(GenMax + 1)]
  /\ seed = 0
  /\ rng = newRand(0)
  /\ tape = [s \in Clock \cup (1..MaxSeed) |-> <<>>]
  /\ ctl = CtlInit
  /\ wk = <<>>
  /\ testChan = <<>>
  /\ failureChan = [q |-> <<>>, closed |-> FALSE]
  /\ randMutex = 0
  /\ obs = ObsInit
  /\ prev = Idle

\* the run of the property is over: ForAll returned or t.Fatalf ended the
\* calling goroutine
Ended == ctl.pc \in {"returned", "exited"}

(* ForAll, up to the loop of runSequential or, in runParallel, up to the   *)
(* range over failureChan: the work queue is filled and closed and the     *)
(* workers are started.  A sequential property can be run a second time.   *)
ForAll ==
  /\ \/ ctl.pc = "idle"
     \/ Ended /\ cfg.Parallelism <= 1 /\ prev = Idle
  /\ \E now \in Clock :
       \E sd \in {effectiveSeed(cfg, now)} :
         /\ seed' = sd
         /\ rng' = newRand(sd)
  /\ shrinkStrategy' = SetShrinkStrategyOf(cfg.ShrinkStrat)
  /\ prev' = IF ctl.pc = "idle" THEN prev
             ELSE [kind |-> "run", log |-> obs.log, fatals |-> obs.fatals]
  /\ obs' = ObsInit
  /\ randMutex' = 0
  /\ failureChan' = [q |-> <<>>, closed |-> FALSE]
  /\ IF cfg.Parallelism <= 1
     THEN /\ ctl' = [CtlInit EXCEPT !.pc = "loop"]
          /\ wk' = <<>>
          /\ testChan' = <<>>
     ELSE /\ ctl' = [CtlInit EXCEPT !.pc = "recv"]
          /\ wk' = [w \in 1..cfg.Parallelism |-> WorkerInit]
          /\ testChan' = [i \in 1..cfg.Examples |-> i - 1]
  /\ UNCHANGED <<sk, cs, cfg, prop, tape>>

(***************************************************************************)
(* runSequential                                                           *)
(***************************************************************************)
\* the loop test and g.Generate(r, gen.Size{})
sGenerate ==
  /\ ctl.pc = "loop"
  /\ IF exampleLoopGuard(ctl.i, cfg.Examples)
     THEN \E o \in Generate(Generators[prop.g], rng, tape) :
            /\ ctl' = [ctl EXCEPT !.pc = "run", !.val = o.val, !.shrink = o.sh]
            /\ rng' = o.r
            /\ tape' = o.tape
            /\ obs' = [obs EXCEPT !.vals = ((ctl.i + 1) :> o.val) @@ @]
     ELSE /\ ctl' = [CtlInit EXCEPT !.pc = "returned"]
          /\ UNCHANGED <<rng, tape, obs>>
  /\ UNCHANGED <<shrinkStrategy, sk, cs, cfg, prop, seed, wk, testChan,
                 failureChan, randMutex, prev>>

\* passed := t.Run(name, ...); if passed { continue }; min := val ...
sRun ==
  /\ ctl.pc = "run"
  /\ \E failed \in {bodyFails(ctl.val)} :
       /\ obs' = [obs EXCEPT
                    !.runs = @ (+) SetToBag({exName(ctl.i)}),
                    !.log = Append(@, [name |-> exName(ctl.i), val |-> ctl.val,
                                       passed |-> ~failed]),
                    !.failed = IF failed THEN @ \cup {ctl.i + 1} ELSE @]
       /\ ctl' = IF failed
                 THEN [ctl EXCEPT !.pc = "shrink", !.min = ctl.val, !.steps = 0,
                                  !.acceptedPrev = TRUE]
                 ELSE [CtlInit EXCEPT !.pc = "loop", !.i = ctl.i + 1]
  /\ UNCHANGED <<shrinkStrategy, sk, cs, cfg, prop, seed, rng, tape, wk,
                 testChan, failureChan, randMutex, prev>>

\* one turn of the shrink loop: the loop test, shrink(acceptedPrev), the
\* shrink subtest and the update of min
sShrinkIter ==
  /\ ctl.pc = "shrink"
  /\ IF shrinkLoopGuard(ctl.steps, cfg.MaxShrink)
     THEN \E o \in shrinkOutcomes(ctl.shrink, ctl.acceptedPrev, shrinkStrategy,
                                  rng, tape) :
            /\ rng' = o.r
            /\ tape' = o.tape
            /\ IF ~o.sh.ok
               THEN /\ ctl' = [ctl EXCEPT !.pc = "fatal", !.shrink = o.sh]
                    /\ obs' = [obs EXCEPT !.shrinkCalls = @ + 1]
               ELSE \E l \in {seqAfterCandidate(ctl, o.sh.out, bodyFails(o.sh.out))} :
                      /\ ctl' = [l EXCEPT !.shrink = o.sh]
                      /\ obs' = [obs EXCEPT
                                   !.shrinkCalls = @ + 1,
                                   !.runs = @ (+) SetToBag({shrinkName(exName(ctl.i), l.steps)}),
                                   !.log = Append(@, [name |-> shrinkName(exName(ctl.i), l.steps),
                                                      val |-> o.sh.out,
                                                      passed |-> ~bodyFails(o.sh.out)])]
     ELSE /\ ctl' = [ctl EXCEPT !.pc = "fatal"]
          /\ UNCHANGED <<rng, tape, obs>>
  /\ UNCHANGED <<shrinkStrategy, sk, cs, cfg, prop, seed, wk, testChan,
                 failureChan, randMutex, prev>>

\* t.Fatalf: FailNow ends the calling goroutine (runtime.Goexit), the
\* statements after it are not executed
sFatalf ==
  /\ ctl.pc = "fatal"
  /\ obs' = [obs EXCEPT !.fatals =
               Append(@, fatalReport(seed, ctl.i + 1, ctl.steps, ctl.min, exName(ctl.i)))]
  /\ ctl' = [ctl EXCEPT !.pc = "exited"]
  /\ UNCHANGED <<shrinkStrategy, sk, cs, cfg, prop, seed, rng, tape, wk,
                 testChan, failureChan, randMutex, prev>>

(***************************************************************************)
(* runParallel: the workers                                                *)
(***************************************************************************)
\* a failure has been sent to failureChan
failurePosted == Len(failureChan.q) > 0 \/ Len(obs.fatals) > 0

\* for testIndex := range testChan: receive an index, or leave the loop and
\* run the deferred wg.Done() when the closed channel is empty
wDequeue(w) ==
  /\ wk[w].pc = "deq"
  /\ IF Len(testChan) > 0
     THEN /\ wk' = [wk EXCEPT ![w] = [WorkerInit EXCEPT
                                       !.pc = "lock", !.testIndex = Head(testChan),
                                       !.late = failurePosted]]
          /\ testChan' = Tail(testChan)
          /\ obs' = [obs EXCEPT !.deq = @ (+) SetToBag({Head(testChan)})]
     ELSE /\ wk' = [wk EXCEPT ![w] = [WorkerInit EXCEPT !.pc = "done"]]
          /\ UNCHANGED <<testChan, obs>>
  /\ UNCHANGED <<shrinkStrategy, sk, cs, cfg, prop, seed, rng, tape, ctl,
                 failureChan, randMutex, prev>>

\* randMutex.Lock()
wLock(w) ==
  /\ wk[w].pc = "lock"
  /\ randMutex = 0
  /\ randMutex' = w
  /\ wk' = [wk EXCEPT ![w].pc = "gen"]
  /\ UNCHANGED <<shrinkStrategy, sk, cs, cfg, prop, seed, rng, tape, ctl,
                 testChan, failureChan, obs, prev>>

\* g.Generate(r, gen.Size{}) returned o; randMutex.Unlock()
wGenerated(w, o) ==
  /\ wk' = [wk EXCEPT ![w].pc = "run", ![w].val = o.val, ![w].shrink = o.sh,
                       ![w].idx = 0]
  /\ rng' = o.r
  /\ tape' = o.tape
  /\ obs' = [obs EXCEPT !.vals = ((wk[w].testIndex + 1) :> o.val) @@ @]
  /\ randMutex' = 0

\* val, shrink := g.Generate(r, gen.Size{}); randMutex.Unlock().  The
\* Generate of IntRange makes one draw.  The Generate of Weighted makes two,
\* idx := r.Intn(len(gs)) and the draw of gs[idx].Generate(r, sz): the
\* worker is left between them, where a shrinker of another worker, which
\* takes no lock, can draw from r.
wGenerate(w) ==
  /\ wk[w].pc = "gen"
  /\ IF Generators[prop.g].kind = "weighted"
     THEN \E idx \in IntnValues(rng, tape, Len(Generators[prop.g].gs)) :
            /\ wk' = [wk EXCEPT ![w].pc = "genval", ![w].idx = idx]
            /\ rng' = IntnRand(rng)
            /\ tape' = IntnTape(rng, tape, idx)
            /\ UNCHANGED <<obs, randMutex>>
     ELSE \E o \in intRangeGenerate(Generators[prop.g], rng, tape) :
            wGenerated(w, o)
  /\ UNCHANGED <<shrinkStrategy, sk, cs, cfg, prop, seed, ctl, testChan,
                 failureChan, prev>>

\* the rest of Weighted's Generate: val, shrink := gs[idx].Generate(r, sz),
\* the neighbors and the closure; randMutex.Unlock()
wGenerateValue(w) ==
  /\ wk[w].pc = "genval"
  /\ \E o \in weightedValue(Generators[prop.g], wk[w].idx, rng, tape) :
       wGenerated(w, o)
  /\ UNCHANGED <<shrinkStrategy, sk, cs, cfg, prop, seed, ctl, testChan,
                 failureChan, prev>>

\* name := fmt.Sprintf("ex#%d", testIndex+1) and the call of t.Run(name, ...):
\* the subtest is started and the worker waits for it, while the other
\* goroutines go on
wRun(w) ==
  /\ wk[w].pc = "run"
  /\ obs' = [obs EXCEPT !.runs = @ (+) SetToBag({exName(wk[w].testIndex)})]
  /\ wk' = [wk EXCEPT ![w].pc = "inrun"]
  /\ UNCHANGED <<shrinkStrategy, sk, cs, cfg, prop, seed, rng, tape, ctl,
                 testChan, failureChan, randMutex, prev>>

\* t.Run(name, ...) returns passed; if passed { continue }; min := val;
\* steps := 0; acceptedPrev := true
wRunDone(w) ==
  /\ wk[w].pc = "inrun"
  /\ \E failed \in {bodyFails(wk[w].val)} :
       /\ obs' = [obs EXCEPT
                    !.failed = IF failed THEN @ \cup {wk[w].testIndex + 1} ELSE @]
       /\ wk' = IF failed
                THEN [wk EXCEPT ![w].pc = "shrink", ![w].min = wk[w].val,
                                ![w].steps = 0, ![w].acceptedPrev = TRUE]
                ELSE [wk EXCEPT ![w] = [WorkerInit EXCEPT !.pc = "deq"]]
  /\ UNCHANGED <<shrinkStrategy, sk, cs, cfg, prop, seed, rng, tape, ctl,
                 testChan, failureChan, randMutex, prev>>

\* shrink(acceptedPrev) returned the candidate s.out: steps++, sname and the
\* call of t.Run(sname, ...); the shrink subtest is started and the worker
\* waits for it
wCandidate(w, s) ==
  /\ wk' = [wk EXCEPT ![w].pc = "incand", ![w].shrink = s, ![w].steps = @ + 1]
  /\ obs' = [obs EXCEPT
               !.shrinkCalls = @ + 1,
               !.runs = @ (+) SetToBag({shrinkName(exName(wk[w].testIndex),
                                                   wk[w].steps + 1)})]

\* t.Run(sname, ...) returns: stillFails and the update of min and
\* acceptedPrev, back to the loop test
wCandidateDone(w) ==
  /\ wk[w].pc = "incand"
  /\ \E l \in {parAfterCandidate(wk[w], wk[w].shrink.out,
                                  bodyFails(wk[w].shrink.out))} :
       wk' = [wk EXCEPT ![w] = [l EXCEPT !.pc = "shrink"]]
  /\ UNCHANGED <<shrinkStrategy, sk, cs, cfg, prop, seed, rng, tape, ctl,
                 testChan, failureChan, randMutex, obs, prev>>

\* a turn of the shrink loop up to the call of t.Run: the loop test and
\* shrink(acceptedPrev); no lock is taken.  A call of the shrinker that has
\* to draw from the random source is left in the middle of the draw.
wShrinkIter(w) ==
  /\ wk[w].pc = "shrink"
  /\ IF shrinkLoopGuard(wk[w].steps, cfg.MaxShrink)
     THEN \E n \in {shrinkCall(wk[w].shrink, wk[w].acceptedPrev, shrinkStrategy)} :
            IF needsRand(n)
            THEN /\ wk' = [wk EXCEPT ![w].pc = "draw", ![w].shrink = n]
                 /\ UNCHANGED obs
            ELSE IF ~n.ok
            THEN /\ wk' = [wk EXCEPT ![w].pc = "post", ![w].shrink = n]
                 /\ obs' = [obs EXCEPT !.shrinkCalls = @ + 1]
            ELSE wCandidate(w, n)
     ELSE /\ wk' = [wk EXCEPT ![w].pc = "post"]
          /\ UNCHANGED obs
  /\ UNCHANGED <<shrinkStrategy, sk, cs, cfg, prop, seed, rng, tape, ctl,
                 testChan, failureChan, randMutex, prev>>

\* the end of gs[j].Generate(r, sz) inside the shrinker, and the turn of
\* the loop up to the call of t.Run
wShrinkDraw(w) ==
  /\ wk[w].pc = "draw"
  /\ \E o \in shrinkDraw(wk[w].shrink, rng, tape) :
       /\ rng' = o.r
       /\ tape' = o.tape
       /\ wCandidate(w, o.sh)
  /\ UNCHANGED <<shrinkStrategy, sk, cs, cfg, prop, seed, ctl, testChan,
                 failureChan, randMutex, prev>>

\* a results channel with no room for an entry
failureChanCap_none(examples) == 0

\* failureChan := make(chan failureResult, cfg.Examples): the number of
\* entries the channel holds before a send blocks
failureChanCap(examples) == examples

\* failureChan <- failureResult{...}; if cfg.StopOnFirstFailure { return }
\* The send blocks while the channel is full.
wPost(w) ==
  /\ wk[w].pc = "post"
  /\ Len(failureChan.q) < failureChanCap(cfg.Examples)
  /\ failureChan' = [failureChan EXCEPT !.q =
       Append(@, [testIndex |-> wk[w].testIndex, name |-> exName(wk[w].testIndex),
                  min |-> wk[w].min, steps |-> wk[w].steps])]
  /\ wk' = [wk EXCEPT ![w] = [WorkerInit EXCEPT
              !.pc = IF cfg.StopOnFirstFailure THEN "done" ELSE "deq"]]
  /\ UNCHANGED <<shrinkStrategy, sk, cs, cfg, prop, seed, rng, tape, ctl,
                 testChan, randMutex, obs, prev>>

(***************************************************************************)
(* runParallel: the closing goroutine and the calling goroutine            *)
(***************************************************************************)
\* wg.Wait(); close(failureChan)
closer ==
  /\ cfg.Parallelism > 1
  /\ ctl.pc # "idle"
  /\ ~failureChan.closed
  /\ wgWait(wk)
  /\ failureChan' = [failureChan EXCEPT !.closed = TRUE]
  /\ UNCHANGED <<shrinkStrategy, sk, cs, cfg, prop, seed, rng, tape, ctl, wk,
                 testChan, randMutex, obs, prev>>

\* for failure := range failureChan { t.Fatalf(...) ... }: the first
\* failure received ends the goroutine in t.Fatalf; the loop is left when
\* the channel is closed and empty
cReceive ==
  /\ ctl.pc = "recv"
  /\ IF Len(failureChan.q) > 0
     THEN \E failure \in {Head(failureChan.q)} :
            /\ failureChan' = [failureChan EXCEPT !.q = Tail(@)]
            /\ obs' = [obs EXCEPT !.fatals =
                         Append(@, fatalReport(seed, failure.testIndex + 1,
                                               failure.steps, failure.min,
                                               failure.name))]
            /\ ctl' = [ctl EXCEPT !.pc = "exited"]
     ELSE /\ failureChan.closed
          /\ ctl' = [ctl EXCEPT !.pc = "returned"]
          /\ UNCHANGED <<failureChan, obs>>
  /\ UNCHANGED <<shrinkStrategy, sk, cs, cfg, prop, seed, rng, tape, wk,
                 testChan, randMutex, prev>>

Next ==
  \/ ForAll
  \/ sGenerate
  \/ sRun
  \/ sShrinkIter
  \/ sFatalf
  \/ \E w \in DOMAIN wk : wDequeue(w)
  \/ \E w \in DOMAIN wk : wLock(w)
  \/ \E w \in DOMAIN wk : wGenerate(w)
  \/ \E w \in DOMAIN wk : wGenerateValue(w)
  \/ \E w \in DOMAIN wk : wRun(w)
  \/ \E w \in DOMAIN wk : wRunDone(w)
  \/ \E w \in DOMAIN wk : wShrinkIter(w)
  \/ \E w \in DOMAIN wk : wShrinkDraw(w)
  \/ \E w \in DOMAIN wk : wCandidateDone(w)
  \/ \E w \in DOMAIN wk : wPost(w)
  \/ closer
  \/ cReceive

Spec == Init /\ [][Next]_vars

(***************************************************************************)
(* runParallel alone: ForAll with Parallelism >= 2, the workers, the        *)
(* closing goroutine and the calling goroutine.  Every goroutine that can  *)
(* take a step is scheduled eventually.                                    *)
(***************************************************************************)
InitPar ==
  /\ Init
  /\ cfg.Parallelism >= 2
  /\ cfg.Seed = 0
  /\ prop.g = "int"

NextPar ==
  \/ ForAll
  \/ \E w \in DOMAIN wk : wDequeue(w)
  \/ \E w \in DOMAIN wk : wLock(w)
  \/ \E w \in DOMAIN wk : wGenerate(w)
  \/ \E w \in DOMAIN wk : wRun(w)
  \/ \E w \in DOMAIN wk : wRunDone(w)
  \/ \E w \in DOMAIN wk : wShrinkIter(w)
  \/ \E w \in DOMAIN wk : wCandidateDone(w)
  \/ \E w \in DOMAIN wk : wPost(w)
  \/ closer
  \/ cReceive

FairPar == InitPar /\ [][NextPar]_vars /\ WF_vars(NextPar)

(***************************************************************************)
(* The shrink loop of runSequential on one failing example of the two      *)
(* false properties of docs/examples, under the default configuration:     *)
(* "every string is empty" over String, "the sum of a slice is 0" over     *)
(* SliceOf.                                                                *)
(***************************************************************************)
DefaultMaxShrink == 400
ExStrLen == 3
ExSliceLen == 3
ExMag == 2

RECURSIVE sum(_)
sum(xs) == IF xs = <<>> THEN 0 ELSE xs[1] + sum(Tail(xs))

\* the body calls t.Fatalf
exampleFails(body, v) ==
  IF body = "emptyString" THEN v # <<>> ELSE sum(v.e) # 0

Example(body, v, s) ==
  [body |-> body, val |-> v, shrink |-> s, min |-> v, steps |-> 0,
   acceptedPrev |-> TRUE, pc |-> "loop"]

InitExample ==
  /\ shrinkStrategy = ShrinkStrategyBFS
  /\ cs = Idle
  /\ RunnerOff
  /\ \/ \E v \in SeqsUpTo(1..AlphaSize, ExStrLen) :
          /\ exampleFails("emptyString", v)
          /\ sk = Example("emptyString", v, stringShrinkInit(v))
     \/ \E v \in SeqsUpTo(-ExMag..ExMag, ExSliceLen) :
          /\ exampleFails("sumZero", mkSlice(v))
          /\ \/ sk = Example("sumZero", cloneSlice(mkSlice(v)),
                              SliceOfFrom(v, shrinkStrategy))
             \/ sk = Example("sumZero", cloneSlice(mkSlice(v)),
                              SliceOf(v, -ExMag, ExMag, shrinkStrategy))

\* one turn of "for steps < cfg.MaxShrink", up to the fatal report
ShrinkIter ==
  /\ sk.pc = "loop"
  /\ IF ~shrinkLoopGuard(sk.steps, DefaultMaxShrink)
     THEN sk' = [sk EXCEPT !.pc = "fatal"]
     ELSE \E n \in {Step(sk.shrink, sk.acceptedPrev, shrinkStrategy)} :
            IF ~n.ok
            THEN sk' = [sk EXCEPT !.shrink = n, !.pc = "fatal"]
            ELSE sk' = [seqAfterCandidate(sk, n.out, exampleFails(sk.body, n.out))
                          EXCEPT !.shrink = n]
  /\ UNCHANGED <<shrinkStrategy, cs>>
  /\ UNCHANGED rvars

NextExample == ShrinkIter

SpecExample == InitExample /\ [][NextExample]_vars

(***************************************************************************)
(* Combinators (Map, Filter, Bind) over IntRange generators, and the first *)
(* calls of the shrinker that Generate has just returned, for every kind   *)
(* of generator.                                                           *)
(***************************************************************************)
FirstCalls == 4

\* the function handed to Map, the predicate handed to Filter and the
\* function handed to Bind
mapFn(a) == a + a

predFn(v) == v % 2 = 0

bindFn(a) == IntRange(0, a)

\* Map: b := f(a) and the closure over sa
Map(a, min, max) ==
  [kind |-> "map", sa |-> intShrinkInit(a, min, max), out |-> mapFn(a), ok |-> TRUE]

mapStep(s, accept, strat) ==
  Let(intStep(s.sa, accept, strat), LAMBDA n :
  IF ~n.ok THEN [s EXCEPT !.sa = n, !.out = 0, !.ok = FALSE]
  ELSE [s EXCEPT !.sa = n, !.out = mapFn(n.out), !.ok = TRUE])

\* Filter: v passed pred; the closure over s.  inner lists the inner
\* candidates that the last call of the closure passed over, each with the
\* flag given to the inner step that followed it.
Filter(v, min, max) ==
  [kind |-> "filter", s |-> intShrinkInit(v, min, max), out |-> v, ok |-> TRUE,
   inner |-> <<>>]

\* a loop that hands the caller's flag to every inner step
RECURSIVE filterLoop_keepAccept(_, _, _)
filterLoop_keepAccept(f, accept, strat) ==
  Let(intStep(f.s, accept, strat), LAMBDA n :
  IF ~n.ok THEN [f EXCEPT !.s = n, !.out = 0, !.ok = FALSE]
  ELSE IF predFn(n.out) THEN [f EXCEPT !.s = n, !.out = n.out, !.ok = TRUE]
  ELSE filterLoop_keepAccept(
         [f EXCEPT !.s = n, !.inner = Append(@, [out |-> n.out, next |-> accept])],
         accept, strat))

\* for { nv, ok := s(accept); ...; accept = false }
RECURSIVE filterLoop(_, _, _)
filterLoop(f, accept, strat) ==
  Let(intStep(f.s, accept, strat), LAMBDA n :
  IF ~n.ok THEN [f EXCEPT !.s = n, !.out = 0, !.ok = FALSE]
  ELSE IF predFn(n.out) THEN [f EXCEPT !.s = n, !.out = n.out, !.ok = TRUE]
  ELSE filterLoop(
         [f EXCEPT !.s = n, !.inner = Append(@, [out |-> n.out, next |-> FALSE])],
         FALSE, strat))

\* one call of the closure returned by Filter
filterStep(f, accept, strat) == filterLoop([f EXCEPT !.inner = <<>>], accept, strat)

\* Bind: a from ga, b from f(a); state 0 shrinks b, state 1 shrinks a
Bind(a, b, amin, amax) ==
  [kind |-> "bind", a |-> a, sa |-> intShrinkInit(a, amin, amax),
   sb |-> intShrinkInit(b, bindFn(a).min, bindFn(a).max), state |-> 0,
   out |-> b, ok |-> TRUE]

\* a case 1 that hands the regenerated b back to case 0
bindShrinkA_backToB(s, accept, strat, rs, tp) ==
  Let(intStep(s.sa, accept, strat), LAMBDA na :
  IF ~na.ok THEN {[sh |-> [s EXCEPT !.sa = na, !.out = 0, !.ok = FALSE],
                   r |-> rs, tape |-> tp]}
  ELSE {[sh |-> [s EXCEPT !.sa = na, !.a = na.out, !.sb = o.sh, !.state = 0,
                          !.out = o.val, !.ok = TRUE],
         r |-> o.r, tape |-> o.tape]
        : o \in intRangeGenerate(bindFn(na.out), rs, tp)})

\* case 1 of the closure: the outcomes [sh, r, tape]
bindShrinkA(s, accept, strat, rs, tp) ==
  Let(intStep(s.sa, accept, strat), LAMBDA na :
  IF ~na.ok THEN {[sh |-> [s EXCEPT !.sa = na, !.out = 0, !.ok = FALSE],
                   r |-> rs, tape |-> tp]}
  ELSE {[sh |-> [s EXCEPT !.sa = na, !.a = na.out, !.sb = o.sh,
                          !.out = o.val, !.ok = TRUE],
         r |-> o.r, tape |-> o.tape]
        : o \in intRangeGenerate(bindFn(na.out), rs, tp)})

bindOutcomes(s, accept, strat, rs, tp) ==
  IF s.state = 0
  THEN Let(intStep(s.sb, accept, strat), LAMBDA nb :
       IF nb.ok THEN {[sh |-> [s EXCEPT !.sb = nb, !.out = nb.out, !.ok = TRUE],
                       r |-> rs, tape |-> tp]}
       ELSE bindShrinkA([s EXCEPT !.sb = nb, !.state = 1], FALSE, strat, rs, tp))
  ELSE bindShrinkA(s, accept, strat, rs, tp)

\* the kind of a shrinker; the command-sequence shrinker carries no tag
kindOf(s) == IF "kind" \in DOMAIN s THEN s.kind ELSE "cmdseq"

\* the outcomes [sh, r, tape] of one call of the shrinker of any generator
stepOutcomes(s, accept, strat, rs, tp) ==
  IF "commands" \in DOMAIN s
  THEN {[sh |-> cmdSeqStep(s, accept, strat), r |-> rs, tape |-> tp]}
  ELSE CASE s.kind = "weighted" -> shrinkOutcomes(s, accept, strat, rs, tp)
         [] s.kind = "map"      -> {[sh |-> mapStep(s, accept, strat), r |-> rs, tape |-> tp]}
         [] s.kind = "filter"   -> {[sh |-> filterStep(s, accept, strat), r |-> rs, tape |-> tp]}
         [] s.kind = "bind"     -> bindOutcomes(s, accept, strat, rs, tp)
         [] OTHER               -> {[sh |-> Step(s, accept, strat), r |-> rs, tape |-> tp]}

\* OneOf over three generators with short shrinks
OneOfThree == OneOf(<<IntRange(0, 0), IntRange(0, 1), IntRange(1, 1)>>)

\* a generator's result in the hands of a caller that has not called yet
Fresh(o) ==
  [sh |-> o.sh, r |-> o.r, tape |-> o.tape, calls |-> 0, accepts |-> <<>>,
   first |-> <<>>, other |-> {}]

NoDraw(s) == [sh |-> s, r |-> newRand(1), tape |-> <<<<>>>>]

InitFirst ==
  /\ shrinkStrategy \in Strategies
  /\ cs = Idle
  /\ RunnerOff
  /\ \/ \E v \in -MaxMag..MaxMag, q \in IntRanges(-MaxMag, MaxMag) :
          sk = Fresh(NoDraw(intShrinkInit(v, q[1], q[2])))
     \/ \E v \in 0..MaxMag, q \in IntRanges(0, MaxMag) :
          sk = Fresh(NoDraw(uintShrinkInit(v, q[1], q[2])))
     \/ \E b \in BOOLEAN : sk = Fresh(NoDraw(boolShrinkInit(b)))
     \/ \E v \in SeqsUpTo(1..AlphaSize, MaxStrLen) :
          sk = Fresh(NoDraw(stringShrinkInit(v)))
     \/ \E v \in SeqsUpTo(-ElemMag..ElemMag, MaxSliceLen) :
          sk = Fresh(NoDraw(SliceOf(v, -ElemMag, ElemMag, shrinkStrategy)))
     \/ \E v \in SeqsUpTo(-ElemMag..ElemMag, MaxSliceLen) :
          sk = Fresh(NoDraw(ArrayOf(v, -ElemMag, ElemMag, shrinkStrategy)))
     \/ \E o \in Generate(Generators.oneof, newRand(1), <<<<>>>>) : sk = Fresh(o)
     \/ \E o \in Generate(OneOfThree, newRand(1), <<<<>>>>) : sk = Fresh(o)
     \/ \E q \in IntRanges(-GenMax, GenMax) : \E v \in q[1]..q[2] :
          sk = Fresh(NoDraw(Map(v, q[1], q[2])))
     \/ \E q \in IntRanges(-GenMax, GenMax) : \E v \in q[1]..q[2] :
          /\ predFn(v)
          /\ sk = Fresh(NoDraw(Filter(v, q[1], q[2])))
     \/ \E a \in 0..GenMax : \E b \in 0..a :
          sk = Fresh(NoDraw(Bind(a, b, 0, GenMax)))
     \/ \E cmds \in SeqsUpTo(0..CmdMag, MaxCmdLen) :
          sk = Fresh(NoDraw(cmdSeqGenerate(cmds)))

\* one call shrink(accept); at the first call, other is what the call could
\* have returned had it been given the opposite flag
Call(accept) ==
  /\ sk.calls < FirstCalls
  /\ \E o \in stepOutcomes(sk.sh, accept, shrinkStrategy, sk.r, sk.tape) :
       sk' = [sk EXCEPT !.sh = o.sh, !.r = o.r, !.tape = o.tape,
                         !.calls = @ + 1,
                         !.accepts = Append(@, accept),
                         !.first = IF sk.calls = 0 THEN <<o>> ELSE @,
                         !.other = IF sk.calls = 0
                                   THEN stepOutcomes(sk.sh, ~accept, shrinkStrategy,
                                                     sk.r, sk.tape)
                                   ELSE @]
  /\ UNCHANGED <<shrinkStrategy, cs>>
  /\ UNCHANGED rvars

CallAny == \E accept \in BOOLEAN : Call(accept)

NextFirst == CallAny

SpecFirst == InitFirst /\ [][NextFirst]_vars

(***************************************************************************)
(* Filter's Generate: the loop of generation attempts, then the calls of   *)
(* the shrinker it returned.  The inner generator is an IntRange and pred  *)
(* is predFn.                                                              *)
(***************************************************************************)
DefaultMaxTries == 1000
FilterTries == 2
FilterCalls == 2

\* the number of attempts as given
effectiveTries_asGiven(maxTries) == maxTries

\* if maxTries <= 0 { maxTries = 1000 }
effectiveTries(maxTries) == IF maxTries <= 0 THEN DefaultMaxTries ELSE maxTries

\* func(bool) (T, bool) { return z, false }
emptyShrinker == [kind |-> "empty", out |-> 0, ok |-> TRUE]

emptyStep(s) == [s EXCEPT !.out = 0, !.ok = FALSE]

InitFilter ==
  /\ shrinkStrategy \in Strategies
  /\ cs = Idle
  /\ RunnerOff
  /\ \E q \in IntRanges(0, GenMax), given \in -1..FilterTries :
       sk = [g |-> IntRange(q[1], q[2]), given |-> given,
             maxTries |-> effectiveTries(given), tries |-> 0, r |-> newRand(1),
             pc |-> "tries", okv |-> FALSE, val |-> 0, sh |-> emptyShrinker,
             calls |-> 0, yields |-> 0]

\* one turn of "for tries := 0; tries < maxTries; tries++"
filterTry ==
  /\ sk.pc = "tries"
  /\ sk.tries < sk.maxTries
  /\ \E o \in intRangeGenerate(sk.g, sk.r, <<<<>>>>) :
       IF predFn(o.val)
       THEN sk' = [sk EXCEPT !.r = o.r, !.okv = TRUE, !.val = o.val,
                             !.sh = Filter(o.val, sk.g.min, sk.g.max),
                             !.pc = "returned"]
       ELSE sk' = [sk EXCEPT !.r = o.r, !.tries = @ + 1]
  /\ UNCHANGED <<shrinkStrategy, cs>>
  /\ UNCHANGED rvars

\* the loop ends without a value: if !okv { return z, func... }
filterGiveUp ==
  /\ sk.pc = "tries"
  /\ sk.tries >= sk.maxTries
  /\ sk' = [sk EXCEPT !.val = 0, !.sh = emptyShrinker, !.pc = "returned"]
  /\ UNCHANGED <<shrinkStrategy, cs>>
  /\ UNCHANGED rvars

\* a call of the shrinker Generate returned
filterCall(accept) ==
  /\ sk.pc = "returned"
  /\ sk.calls < FilterCalls
  /\ \E n \in {IF sk.sh.kind = "empty" THEN emptyStep(sk.sh)
               ELSE filterStep(sk.sh, accept, shrinkStrategy)} :
       sk' = [sk EXCEPT !.sh = n, !.calls = @ + 1,
                         !.yields = IF n.ok THEN @ + 1 ELSE @]
  /\ UNCHANGED <<shrinkStrategy, cs>>
  /\ UNCHANGED rvars

NextFilter ==
  \/ filterTry
  \/ filterGiveUp
  \/ \E accept \in BOOLEAN : filterCall(accept)

SpecFilter == InitFilter /\ [][NextFilter]_vars

(***************************************************************************)
(* ArrayOf(elem, n) handed to the runner: Generate for the first example,  *)
(* its subtest, and the shrinker calls that follow a failure.  elem is     *)
(* IntRange(-ElemMag, ElemMag).                                            *)
(***************************************************************************)
ArrayLen == 2

\* the largest cfg.MaxShrink tried: an array of ArrayLen elements is
\* exhausted after ArrayLen + 1 calls, so the bound of the loop is reached
\* for the smaller values and never for the larger ones
ArrayMaxShrink == 4

\* if n < 0 { n = 0 }
arrayLen(n) == IF n < 0 THEN 0 ELSE n

InitArray ==
  /\ shrinkStrategy \in Strategies
  /\ cs = Idle
  /\ RunnerOff
  /\ \E n \in -2..ArrayLen, maxShrink \in 0..ArrayMaxShrink :
       sk = [n |-> n, maxShrink |-> maxShrink, pc |-> "start",
             generated |-> FALSE, subtests |-> 0, sh |-> emptyShrinker,
             calls |-> 0, steps |-> 0, acceptedPrev |-> TRUE]

\* val, shrink := g.Generate(r, gen.Size{})
arrayGenerate ==
  /\ sk.pc = "start"
  /\ \E vals \in [1..arrayLen(sk.n) -> -ElemMag..ElemMag] :
       sk' = [sk EXCEPT !.pc = "generated", !.generated = TRUE,
                         !.sh = ArrayOf(vals, -ElemMag, ElemMag, shrinkStrategy)]
  /\ UNCHANGED <<shrinkStrategy, cs>>
  /\ UNCHANGED rvars

\* t.Run("ex#1", body): the body passes or fails; after a failure
\* steps := 0; acceptedPrev := true
arrayExample ==
  /\ sk.pc = "generated"
  /\ \E passed \in BOOLEAN :
       sk' = [sk EXCEPT !.subtests = @ + 1,
                         !.steps = 0, !.acceptedPrev = TRUE,
                         !.pc = IF passed THEN "passed" ELSE "shrinking"]
  /\ UNCHANGED <<shrinkStrategy, cs>>
  /\ UNCHANGED rvars

\* one turn of "for steps < cfg.MaxShrink": the loop test,
\* next, ok := shrink(acceptedPrev), the subtest of the candidate and the
\* update of acceptedPrev; the loop is left for t.Fatalf when the test
\* fails or the shrinker returns ok = false
arrayShrink ==
  /\ sk.pc = "shrinking"
  /\ IF shrinkLoopGuard(sk.steps, sk.maxShrink)
     THEN \E n \in {arrayStep(sk.sh, sk.acceptedPrev, shrinkStrategy)} :
            IF ~n.ok
            THEN sk' = [sk EXCEPT !.sh = n, !.calls = @ + 1, !.pc = "fatal"]
            ELSE \E stillFails \in BOOLEAN :
                   sk' = [sk EXCEPT !.sh = n, !.calls = @ + 1,
                                     !.steps = @ + 1, !.subtests = @ + 1,
                                     !.acceptedPrev = stillFails]
     ELSE sk' = [sk EXCEPT !.pc = "fatal"]
  /\ UNCHANGED <<shrinkStrategy, cs>>
  /\ UNCHANGED rvars

NextArray ==
  \/ arrayGenerate
  \/ arrayExample
  \/ arrayShrink

SpecArray == InitArray /\ [][NextArray]_vars

(***************************************************************************)
(* State-machine testing (quick): executeStateMachine and the body of      *)
(* TestStateMachine over a model whose state is a counter.  A command      *)
(* value is the tag its descriptor's generator produces (gen.Const(name)). *)
(***************************************************************************)
SMLimit == 2
SMSeqLen == 3
SMDescs == 2

\* the tags of the commands, and the descriptors a model can be built
\* from: "inc", "dec" and "boom" generate their own tag, "counter" generates
\* every tag and looks at the command it is handed.  "inc" has no
\* precondition, "boom" has no postcondition and always returns an error
\* together with a state.
Tags == {"inc", "dec", "boom"}

generates(d) == IF d = "counter" THEN Tags ELSE {d}

\* what the descriptor d does with the command cmd
behaviour(d, cmd) == IF d = "counter" THEN cmd ELSE d

hasPrecondition(d) == d \in {"dec", "counter"}

Precondition(d, state, cmd) == behaviour(d, cmd) = "dec" => state > 0

Execute(d, state, cmd) ==
  CASE behaviour(d, cmd) = "inc"  ->
         IF state >= SMLimit THEN [to |-> state, err |-> TRUE]
         ELSE [to |-> state + 1, err |-> FALSE]
    [] behaviour(d, cmd) = "dec"  -> [to |-> state - 1, err |-> FALSE]
    [] behaviour(d, cmd) = "boom" -> [to |-> SMLimit + 1, err |-> TRUE]

hasPostcondition(d) == d # "boom"

Postcondition(d, from, cmd, to) ==
  CASE behaviour(d, cmd) = "inc"  -> to = from + 1
    [] behaviour(d, cmd) = "dec"  -> to = from - 1
    [] behaviour(d, cmd) = "boom" -> TRUE

\* the models: one "counter", or up to SMDescs single-tag descriptors
Models == {<<"counter">>} \cup SeqsUpTo(Tags, SMDescs)

\* the commands the generators of sm produce
commandsOf(sm) == UNION {generates(d) : d \in Range(sm)}

\* the descriptor whose generator produced cmd
owner(sm, cmd) == CHOOSE d \in Range(sm) : cmd \in generates(d)

\* findMatchingCommand: <<>> is nil
findMatchingCommand(sm, cmd) == IF Len(sm) = 0 THEN <<>> ELSE <<sm[1]>>

\* the descriptor the body of TestStateMachine takes for a transition
executedCmd(sm) == IF Len(sm) = 0 THEN <<>> ELSE <<sm[1]>>

\* a state update that ignores the error
nextState_ignoreError(state, res) == res.to

\* if err == nil { state = newState }
nextState(state, res) == IF res.err THEN state ELSE res.to

InitSM ==
  /\ shrinkStrategy = ShrinkStrategyBFS
  /\ sk = Idle
  /\ RunnerOff
  /\ \E sm \in Models :
       \E seq \in SeqsUpTo(IF Len(sm) = 0 THEN Tags ELSE commandsOf(sm), SMSeqLen) :
         cs = [sm |-> sm, seq |-> seq, i |-> 1, state |-> 0, history |-> <<>>,
               skipped |-> <<>>, pc |-> "exec", errors |-> <<>>]

\* one turn of "for _, cmd := range sequence.Commands"
execCommand ==
  /\ cs.pc = "exec"
  /\ cs.i <= Len(cs.seq)
  /\ LET cmd == cs.seq[cs.i]
         matchedCmd == findMatchingCommand(cs.sm, cmd)
     IN IF matchedCmd = <<>>
        THEN cs' = [cs EXCEPT !.skipped = Append(@, cmd), !.i = @ + 1]
        ELSE IF hasPrecondition(matchedCmd[1]) /\ ~Precondition(matchedCmd[1], cs.state, cmd)
        THEN cs' = [cs EXCEPT !.skipped = Append(@, cmd), !.i = @ + 1]
        ELSE LET res == Execute(matchedCmd[1], cs.state, cmd)
             IN cs' = [cs EXCEPT
                         !.history = Append(@, [cmd |-> cmd, from |-> cs.state,
                                                to |-> res.to, err |-> res.err]),
                         !.state = nextState(cs.state, res),
                         !.i = @ + 1]
  /\ UNCHANGED <<shrinkStrategy, sk>>
  /\ UNCHANGED rvars

\* the t.Errorf calls of the body for transition k
transitionErrors(sm, t, k) ==
  LET e == executedCmd(sm)
  IN (IF e # <<>> /\ hasPostcondition(e[1]) /\ ~Postcondition(e[1], t.from, t.cmd, t.to)
      THEN <<[kind |-> "postcondition", name |-> e[1], k |-> k]>> ELSE <<>>)
     \o (IF t.err THEN <<[kind |-> "error", name |-> t.cmd, k |-> k]>> ELSE <<>>)

RECURSIVE validateFrom(_, _, _)
validateFrom(sm, history, k) ==
  IF k > Len(history) THEN <<>>
  ELSE transitionErrors(sm, history[k], k) \o validateFrom(sm, history, k + 1)

\* executeStateMachine returns; the body validates the result
validate ==
  /\ cs.pc = "exec"
  /\ cs.i > Len(cs.seq)
  /\ cs' = [cs EXCEPT !.pc = "done", !.errors = validateFrom(cs.sm, cs.history, 1)]
  /\ UNCHANGED <<shrinkStrategy, sk>>
  /\ UNCHANGED rvars

NextSM == execCommand \/ validate

SpecSM == InitSM /\ [][NextSM]_vars

(***************************************************************************)
(* C1: in sequential and in parallel mode, a failing example gets at most  *)
(* cfg.MaxShrink shrink subtests, named ex#i/shrink#1..k without gap or    *)
(* repetition (none when MaxShrink = 0), and a run in which a body failed  *)
(* ends with exactly one fatal report, which carries the effective seed.   *)
(***************************************************************************)
C1_ShrinkBoundOneFatal ==
  /\ \A n \in BagToSet(obs.runs) :
       /\ n.shrink <= cfg.MaxShrink
       /\ CopiesIn(n, obs.runs) = 1
       /\ n.shrink > 0 =>
            /\ n.ex \in obs.failed
            /\ BagIn([n EXCEPT !.shrink = @ - 1], obs.runs)
  /\ Len(obs.fatals) <= 1
  /\ \A k \in 1..Len(obs.fatals) :
       /\ obs.fatals[k].seed = seed
       /\ obs.fatals[k].replay.seed = seed
       /\ cfg.Seed # 0 => obs.fatals[k].seed = cfg.Seed
       /\ obs.fatals[k].shrunk_steps <= cfg.MaxShrink
  /\ Ended => (Len(obs.fatals) = 1 <=> obs.failed # {})

\* a parallel run with two failing examples ended with one fatal report of
\* an example that used all its shrink steps
C1_Witness ==
  /\ ctl.pc = "exited"
  /\ cfg.Parallelism > 1
  /\ Cardinality(obs.failed) >= 2
  /\ Len(obs.fatals) = 1
  /\ cfg.MaxShrink = MaxShrinkBound
  /\ obs.fatals[1].shrunk_steps = cfg.MaxShrink
  /\ BagIn(shrinkName(obs.fatals[1].replay.run, cfg.MaxShrink), obs.runs)

(***************************************************************************)
(* C2: in sequential mode, as long as no body has failed the subtests run  *)
(* are ex#1, ex#2, ... in this order, no shrinker has been called and no   *)
(* fatal report emitted; when the run is over they are exactly             *)
(* ex#1 ... ex#Examples and ForAll has returned.                           *)
(***************************************************************************)
C2_SequentialAllPass ==
  (cfg.Parallelism <= 1 /\ ctl.pc # "idle" /\ obs.failed = {}) =>
    /\ Len(obs.log) <= cfg.Examples
    /\ \A k \in 1..Len(obs.log) :
         /\ obs.log[k].name = exName(k - 1)
         /\ CopiesIn(obs.log[k].name, obs.runs) = 1
    /\ Cardinality(BagToSet(obs.runs)) = Len(obs.log)
    /\ obs.shrinkCalls = 0
    /\ obs.fatals = <<>>
    /\ Ended => (ctl.pc = "returned" /\ Len(obs.log) = cfg.Examples)

\* a sequential run of MaxExamples examples, of a body that fails on some
\* values, returned without a failure
C2_Witness ==
  /\ cfg.Parallelism <= 1
  /\ ctl.pc = "returned"
  /\ cfg.Examples = MaxExamples
  /\ Len(obs.log) = MaxExamples
  /\ prop.failFrom <= GenMax
  /\ obs.failed = {}

(***************************************************************************)
(* C3: in sequential mode with StopOnFirstFailure = false the run is not   *)
(* over before every example 1..Examples has been generated and run.       *)
(***************************************************************************)
C3_ContinuesAfterFailure ==
  (cfg.Parallelism <= 1 /\ ~cfg.StopOnFirstFailure /\ Ended) =>
    \A i \in 1..cfg.Examples : BagIn(exName(i - 1), obs.runs)

(***************************************************************************)
(* C4: in parallel mode with StopOnFirstFailure = true, no worker          *)
(* generates a value for, or runs, an example it took off the work queue   *)
(* after a failure had been sent to failureChan.                           *)
(***************************************************************************)
C4_QueueDrained ==
  (cfg.Parallelism > 1 /\ cfg.StopOnFirstFailure) =>
    \A w \in DOMAIN wk :
      wk[w].late => wk[w].pc \notin {"run", "inrun", "shrink", "draw", "incand", "post"}

\* the workers inside a call on the random source: g.Generate of the worker
\* loop, gs[j].Generate of a migrating Weighted shrinker
rngUsers == {w \in DOMAIN wk : wk[w].pc \in {"gen", "genval", "draw"}}

(***************************************************************************)
(* C5: in parallel mode every worker that is inside a call on the random   *)
(* source holds randMutex, so at most one worker is inside such a call.    *)
(***************************************************************************)
C5_DrawsUnderMutex ==
  /\ \A w \in rngUsers : randMutex = w
  /\ Cardinality(rngUsers) <= 1

(***************************************************************************)
(* The shrink loop of runSequential run to its end on a value v of an      *)
(* IntRange generator g: the locals when the loop is left.                 *)
(***************************************************************************)
RECURSIVE seqShrinkLoop(_)
seqShrinkLoop(l) ==
  IF ~shrinkLoopGuard(l.steps, cfg.MaxShrink) THEN l
  ELSE Let(Step(l.shrink, l.acceptedPrev, SetShrinkStrategyOf(cfg.ShrinkStrat)),
           LAMBDA n :
       IF ~n.ok THEN [l EXCEPT !.shrink = n]
       ELSE seqShrinkLoop([seqAfterCandidate(l, n.out, bodyFails(n.out))
                             EXCEPT !.shrink = n]))

minSequential(g, v) ==
  seqShrinkLoop([shrink |-> intShrinkInit(v, g.min, g.max), min |-> v,
                 steps |-> 0, acceptedPrev |-> TRUE])

(***************************************************************************)
(* C6 (as amended): for a generator whose shrinker draws no random value   *)
(* (IntRange), the minimum and the number of shrink steps a worker sends   *)
(* for a failing example, and those of every fatal report, are the ones    *)
(* the sequential shrink loop computes from the value generated for that   *)
(* example, whatever the parallelism and the schedule of the workers.      *)
(***************************************************************************)
C6_MinOfGeneratedValue ==
  (prop.g = "int" /\ ctl.pc # "idle") =>
    /\ \A k \in 1..Len(failureChan.q) :
         \E f \in {failureChan.q[k]} :
           \E m \in {minSequential(Generators.int, obs.vals[f.testIndex + 1])} :
             f.min = m.min /\ f.steps = m.steps
    /\ \A k \in 1..Len(obs.fatals) :
         \E f \in {obs.fatals[k]} :
           \E m \in {minSequential(Generators.int, obs.vals[f.examples_run])} :
             f.min = m.min /\ f.shrunk_steps = m.steps

\* a worker has sent a failure whose minimum differs from the generated
\* value and was found in the last of MaxShrinkBound shrink steps
C6_Witness ==
  /\ cfg.Parallelism > 1
  /\ prop.g = "int"
  /\ Len(obs.fatals) = 1
  /\ obs.fatals[1].shrunk_steps = MaxShrinkBound
  /\ obs.fatals[1].min # obs.vals[obs.fatals[1].examples_run]
  /\ Cardinality(obs.failed) >= 2

(***************************************************************************)
(* C6 (as stated): the minimum reported for a failing example index is the *)
(* one a run at parallelism 1 with the same seed reports for it, i.e. the  *)
(* one computed from the index-th value of the seed's stream.              *)
(***************************************************************************)
C6_SameMinEverySchedule ==
  (prop.g = "int" /\ cfg.Seed # 0 /\ ctl.pc # "idle") =>
    \A k \in 1..Len(obs.fatals) :
      \E f \in {obs.fatals[k]} :
        Len(tape[seed]) >= f.examples_run =>
          f.min = minSequential(Generators.int,
                    Generators.int.min + tape[seed][f.examples_run]).min

(***************************************************************************)
(* C7: in parallel mode every index 0..Examples-1 is in the work queue     *)
(* once until it is received, and is received once; when no body fails,    *)
(* every subtest ex#i runs at most once, there is no shrink subtest and no *)
(* fatal report, ForAll returns only after every worker has finished, and  *)
(* by then each of ex#1..ex#Examples has run exactly once.                 *)
(***************************************************************************)
C7_EachIndexOnce ==
  (cfg.Parallelism > 1 /\ ctl.pc # "idle") =>
    /\ \A i \in 0..(cfg.Examples - 1) :
         CopiesIn(i, obs.deq)
           + Cardinality({k \in 1..Len(testChan) : testChan[k] = i}) = 1
    /\ BagToSet(obs.deq) \subseteq 0..(cfg.Examples - 1)
    /\ obs.failed = {} =>
         /\ obs.fatals = <<>>
         /\ \A n \in BagToSet(obs.runs) :
              n.shrink = 0 /\ n.ex \in 1..cfg.Examples /\ CopiesIn(n, obs.runs) = 1
         /\ ctl.pc = "returned" =>
              /\ \A w \in DOMAIN wk : wk[w].pc = "done"
              /\ \A i \in 1..cfg.Examples : CopiesIn(exName(i - 1), obs.runs) = 1

\* ForAll returned from a run with more workers than examples and a body
\* that passed
C7_Witness ==
  /\ cfg.Parallelism > cfg.Examples
  /\ cfg.Parallelism > 1
  /\ cfg.Examples >= 1
  /\ ctl.pc = "returned"
  /\ \A i \in 1..cfg.Examples : CopiesIn(exName(i - 1), obs.runs) = 1

(***************************************************************************)
(* C8: at parallelism 1 with a non-zero seed, the second run of a property *)
(* shows the subtests of the first run, with the same values and outcomes  *)
(* in the same order, and ends with the same fatal report (seed, minimum,  *)
(* steps and replay hint).                                                 *)
(***************************************************************************)
C8_SameRunTwice ==
  (cfg.Parallelism <= 1 /\ cfg.Seed # 0 /\ prev.kind = "run") =>
    /\ Len(obs.log) <= Len(prev.log)
    /\ obs.log = SubSeq(prev.log, 1, Len(obs.log))
    /\ Ended => (obs.log = prev.log /\ obs.fatals = prev.fatals)

\* the second run of a OneOf property ended with the fatal report of a
\* failure that took MaxShrinkBound shrink steps
C8_Witness ==
  /\ cfg.Parallelism <= 1
  /\ cfg.Seed # 0
  /\ prev.kind = "run"
  /\ Ended
  /\ prop.g = "oneof"
  /\ Len(obs.fatals) = 1
  /\ obs.fatals[1].shrunk_steps = MaxShrinkBound
  /\ obs.fatals = prev.fatals

RECURSIVE Pow2(_)
Pow2(n) == IF n = 0 THEN 1 ELSE 2 * Pow2(n - 1)

\* size of the universe the dedup set of h lives in
DedupBound(h) ==
  CASE h.sh.kind \in {"int", "uint"} -> h.sh.max - h.sh.min + 1
    [] h.sh.kind = "bool"   -> 2
    [] h.sh.kind = "string" -> Pow2(Len(h.start) + 1) - 1
    [] h.sh.kind = "slice"  -> (Len(h.start.e) + 1) * Pow2(Len(h.start.e))
    [] h.sh.kind = "array"  -> Len(h.start.e) + 1

(***************************************************************************)
(* C9: a queue-based shrinker (Int/Uint, Bool, String, SliceOf, ArrayOf),  *)
(* whatever its start value, the strategy and the accept flags it is       *)
(* given, never yields more candidates than there are values in its dedup  *)
(* set, and returns ok = false after finitely many calls: the dedup set    *)
(* stays within a finite universe fixed by the start value, so the first   *)
(* ok = false comes after at most DedupBound + 1 calls.                    *)
(***************************************************************************)
C9_Terminates ==
  /\ Len(sk.yielded) <= Cardinality(sk.sh.seen)
  /\ Cardinality(sk.sh.seen) <= DedupBound(sk)
  /\ sk.calls <= DedupBound(sk) + 1

\* a slice shrinker that was rebased, yielded at least three candidates and
\* is exhausted
C9_Witness ==
  /\ sk.done
  /\ sk.sh.kind = "slice"
  /\ Len(sk.yielded) >= 3
  /\ sk.sh.cur # sk.start

(***************************************************************************)
(* C10: the shrinker of the command-sequence generator returns ok = false  *)
(* after finitely many calls, for any start sequence and accept flags.     *)
(***************************************************************************)
C10_Terminates == <> cs.done

(***************************************************************************)
(* C11: within one shrinker instance no candidate is yielded twice and the *)
(* generated value is never yielded.  Seen from the sequential runner: the *)
(* subtests of one example (ex#i on the generated value, then its shrink   *)
(* subtests on the candidates of its shrinker) run on pairwise distinct    *)
(* values.                                                                 *)
(***************************************************************************)
C11_NoCandidateTwice ==
  cfg.Parallelism <= 1 =>
    \A j, k \in 1..Len(obs.log) :
      (j < k /\ obs.log[j].name.ex = obs.log[k].name.ex) =>
        obs.log[j].val # obs.log[k].val

(***************************************************************************)
(* C12: once a call of step has returned ok = false, every later call on   *)
(* that shrinker returns ok = false, whatever accept flag it is given.     *)
(***************************************************************************)
C12_StaysExhausted == [][sk.done => ~sk'.sh.ok]_vars

\* every call so far was step(true) and was made under one strategy
allAccepted(h) == h.accepts \subseteq {TRUE} /\ Cardinality(h.strats) <= 1

(* C13: an integer shrinker over a range containing 0, started at v # 0 and
   driven by step(true) until it is exhausted, has yielded 0, under BFS and
   under DFS. *)
C13_ReachesZero ==
  (/\ sk.sh.kind = "int" /\ sk.done /\ allAccepted(sk)
   /\ sk.sh.min <= 0 /\ 0 <= sk.sh.max /\ sk.start # 0)
    => 0 \in Range(sk.yielded)
(* C14: a String shrinker started at a non-empty string and driven by
   step(true) until it is exhausted has yielded the empty string. *)
C14_ReachesEmpty ==
  (sk.sh.kind = "string" /\ sk.done /\ allAccepted(sk) /\ sk.start # <<>>)
    => <<>> \in Range(sk.yielded)
(* C15: a SliceOf shrinker started at a five-element slice and driven by
   step(true) until it is exhausted has yielded the empty slice, under BFS
   and under DFS. *)
C15_ReachesEmptySlice ==
  (sk.sh.kind = "slice" /\ sk.done /\ allAccepted(sk)
   /\ Len(sk.start.e) = LongSliceLen)
    => \E i \in 1..Len(sk.yielded) : sk.yielded[i].e = <<>>
(* C16: for the property s = "" over strings, under BFS, the minimal
   counterexample reported for a generated non-empty string is the
   one-character string made of the first symbol of the alphabet. *)
C16_MinIsFirstSymbol ==
  (sk.body = "emptyString" /\ sk.pc = "fatal") => sk.min = <<1>>
(* C17: for the property sum(xs) = 0 over SliceOf of integers, under BFS and
   the default shrink bound, the minimal counterexample reported for a
   generated slice that fails has exactly one element, and that element is
   not 0 and is within the range of the elements. *)
C17_MinIsSingleton ==
  (sk.body = "sumZero" /\ sk.pc = "fatal") =>
    /\ Len(sk.min.e) = 1
    /\ sk.min.e[1] # 0
    /\ sk.min.e[1] \in -ExMag..ExMag
\* a fatal report for a generated slice of the longest length, after a
\* rebase and at least three shrink subtests
C17_Witness ==
  /\ sk.body = "sumZero" /\ sk.pc = "fatal"
  /\ Len(sk.val.e) = ExSliceLen
  /\ sk.steps >= 3
  /\ sig(sk.shrink.cur) # sig(sk.val)
  /\ Len(sk.min.e) = 1
(* C18: the Bool shrinker holds exactly one candidate, the other value:
   grow(true) = [false] and grow(false) = [true]; its first step yields that
   value and the following step returns ok = false, whatever the accept
   flags and the strategy, and no later call yields anything. *)
C18_BoolOneCandidate ==
  sk.sh.kind = "bool" =>
    /\ sk.calls = 0 => sk.sh.queue = <<~sk.start>>
    /\ sk.calls >= 1 => sk.yielded = <<~sk.start>>
    /\ sk.calls >= 2 => sk.done
    /\ sk.calls <= 2

\* a Bool shrinker started at true, exhausted by its second call, which was
\* given accept = true under DFS
C18_Witness ==
  /\ sk.sh.kind = "bool" /\ sk.start = TRUE
  /\ sk.calls = 2 /\ sk.done
  /\ sk.sh.cur = FALSE
  /\ sk.strats = {ShrinkStrategyDFS}
(* C19: the first call of the shrinker that Generate returned ignores its
   accept flag: given the same draws of the random source, step(true) and
   step(false) return the same candidate and leave the shrinker in the same
   state, for Int, Uint, Bool, String, SliceOf, ArrayOf, OneOf, Map, Filter,
   Bind and command sequences. *)
C19_FirstCallIgnoresAccept ==
  sk.calls >= 1 => sk.first[1] \in sk.other

\* a Bind shrinker whose first call exhausted the shrinker of b, moved to
\* a and drew a new b
C19_Witness ==
  /\ sk.calls >= 1
  /\ kindOf(sk.sh) = "bind" /\ sk.sh.state = 1 /\ sk.sh.ok
  /\ sk.r.pos > 0
  /\ sk.accepts[1] = TRUE
\* o is c with the command of exactly one position replaced
localShrink(c, o) ==
  /\ Len(o) = Len(c)
  /\ \E i \in 1..Len(c) :
       /\ o[i] # c[i]
       /\ \A j \in 1..Len(c) : j # i => o[j] = c[j]

(* C20: the shrinker of a generated command sequence proposes first the
   sequence without its last command and, at the calls that follow,
   sequences in which the command of one position is replaced by a candidate
   of that command's shrinker. *)
C20_ShorterThenLocal ==
  [][(cs' # cs /\ Len(cs.sh.commands) > 0) =>
       /\ ~cs.called =>
            /\ cs'.sh.ok
            /\ cs'.sh.out = SubSeq(cs.sh.commands, 1, Len(cs.sh.commands) - 1)
       /\ cs.called =>
            (cs'.sh.ok => localShrink(cs.sh.commands, cs'.sh.out))]_vars
\* the transitions of h whose owning descriptor has a postcondition that fails
postViolations(sm, h) ==
  {k \in 1..Len(h) :
     /\ hasPostcondition(owner(sm, h[k].cmd))
     /\ ~Postcondition(owner(sm, h[k].cmd), h[k].from, h[k].cmd, h[k].to)}

(* C21: with two or more descriptors, every recorded transition is the
   result of the execute function of the descriptor that owns its command,
   and the postcondition errors of the body are those of the owning
   descriptors' postconditions. *)
C21_OwnerResolved ==
  (Len(cs.sm) >= 2) =>
    /\ \A k \in 1..Len(cs.history) :
         LET t == cs.history[k]
             res == Execute(owner(cs.sm, t.cmd), t.from, t.cmd)
         IN t.to = res.to /\ t.err = res.err
    /\ cs.pc = "done" =>
         {e.k : e \in {x \in Range(cs.errors) : x.kind = "postcondition"}}
           = postViolations(cs.sm, cs.history)
\* the state reached by the transitions of h that carry no error
RECURSIVE lastGood(_, _)
lastGood(h, init) ==
  IF h = <<>> THEN init
  ELSE IF h[Len(h)].err THEN lastGood(SubSeq(h, 1, Len(h) - 1), init)
  ELSE h[Len(h)].to

\* the effect of the turn of the loop on the command at position cs.i
stepEffect ==
  LET cmd == cs.seq[cs.i]
      m == findMatchingCommand(cs.sm, cmd)
      refused == m # <<>> /\ hasPrecondition(m[1]) /\ ~Precondition(m[1], cs.state, cmd)
  IN IF m = <<>> \/ refused
     THEN /\ cs'.skipped = Append(cs.skipped, cmd)
          /\ cs'.history = cs.history
          /\ cs'.state = cs.state
     ELSE LET res == Execute(m[1], cs.state, cmd)
          IN /\ cs'.skipped = cs.skipped
             /\ cs'.history = Append(cs.history, [cmd |-> cmd, from |-> cs.state,
                                                   to |-> res.to, err |-> res.err])
             /\ cs'.state = IF res.err THEN cs.state ELSE res.to

(* C22: the executor takes the commands in order; a command refused by the
   precondition is appended to Skipped, records no transition and leaves the
   state alone; a command whose execute returns an error is recorded with
   the error and leaves the state alone; otherwise the transition is
   recorded and the state becomes the returned state.  So History and
   Skipped together account for every command processed, and the state is
   the one after the last transition without error. *)
C22_StepEffects ==
  /\ [](/\ Len(cs.history) + Len(cs.skipped) = cs.i - 1
        /\ cs.state = lastGood(cs.history, 0)
        /\ cs.pc = "done" => Len(cs.history) + Len(cs.skipped) = Len(cs.seq))
  /\ [][cs'.i = cs.i + 1 => stepEffect]_vars

\* a finished execution with a transition carrying an error and a state
\* different from the current one, followed by a transition without error
C22_Witness ==
  /\ cs.pc = "done"
  /\ \E j, k \in 1..Len(cs.history) :
       /\ j < k
       /\ cs.history[j].err /\ cs.history[j].to # cs.history[j].from
       /\ ~cs.history[k].err
  /\ cs.skipped # <<>>
\* q lists the indices of gs other than idx, each once, in increasing order
othersInOrder(q, gs, idx) ==
  /\ Range(q) = (0..(Len(gs) - 1)) \ {idx}
  /\ \A i, j \in 1..Len(q) : i < j => q[i] < q[j]

\* the effect of one call on a Weighted shrinker, given the flag it received
weightedEffect ==
  LET accept == sk'.accepts[Len(sk'.accepts)]
      inner == intStep(sk.sh.shrink, accept, shrinkStrategy)
      old == sk.sh
      new == sk'.sh
  IN IF inner.ok
     THEN \* a candidate of the current generator's shrinker
          /\ new.ok /\ new.out = inner.out /\ new.shrink = inner
          /\ new.idx = old.idx /\ new.neighbors = old.neighbors
          /\ sk'.r = sk.r
     ELSE IF old.neighbors # <<>>
     THEN \* a migration to the next unused generator, with a fresh value
          LET g == old.gs[Head(old.neighbors) + 1]
          IN /\ new.ok
             /\ new.idx = Head(old.neighbors)
             /\ new.neighbors = Tail(old.neighbors)
             /\ new.out \in g.min..g.max
             /\ new.shrink = intShrinkInit(new.out, g.min, g.max)
             /\ sk'.r.pos = sk.r.pos + 1
     ELSE ~new.ok /\ new.idx = old.idx /\ new.neighbors = <<>>

(* C23: the Weighted / OneOf shrinker yields the candidates of the chosen
   generator's shrinker until it is exhausted, then migrates to the other
   generators in their index order, the chosen one left out, each once,
   yielding one freshly generated value at a migration and going on with
   that value's shrinker; it returns ok = false only when the current
   shrinker is exhausted and no generator is left. *)
C23_WeightedMigration ==
  /\ []((kindOf(sk.sh) = "weighted" /\ sk.calls = 0) =>
          othersInOrder(sk.sh.neighbors, sk.sh.gs, sk.sh.idx))
  /\ [][(kindOf(sk.sh) = "weighted" /\ sk'.calls = sk.calls + 1) => weightedEffect]_vars

\* a shrinker over three generators that has migrated twice, first to
\* generator 0 and then to generator 2, and is exhausted
C23_Witness ==
  /\ kindOf(sk.sh) = "weighted" /\ Len(sk.sh.gs) = 3
  /\ sk.sh.idx = 2 /\ sk.sh.neighbors = <<>>
  /\ sk.calls = 4 /\ ~sk.sh.ok
\* the A phase of a call: one step of A's shrinker with the flag acc
bindPhaseA(acc) ==
  LET na == intStep(sk.sh.sa, acc, shrinkStrategy)
      new == sk'.sh
  IN /\ new.state = 1
     /\ new.sa = na
     /\ new.ok = na.ok
     /\ na.ok =>
          /\ new.a = na.out
          /\ new.out \in bindFn(na.out).min..bindFn(na.out).max
          /\ new.sb = intShrinkInit(new.out, bindFn(na.out).min, bindFn(na.out).max)
          /\ sk'.r.pos = sk.r.pos + 1

\* the effect of one call on a Bind shrinker, given the flag it received
bindEffect ==
  LET accept == sk'.accepts[Len(sk'.accepts)]
      nb == intStep(sk.sh.sb, accept, shrinkStrategy)
      old == sk.sh
      new == sk'.sh
  IN IF old.state = 0
     THEN IF nb.ok
          THEN /\ new.ok /\ new.out = nb.out /\ new.sb = nb
               /\ new.state = 0 /\ new.a = old.a /\ new.sa = old.sa
               /\ sk'.r = sk.r
          ELSE bindPhaseA(FALSE)
     ELSE bindPhaseA(accept)

(* C24: the Bind shrinker first yields the candidates of B's shrinker under
   the bound A, handing it the accept flag; once B's shrinker is exhausted
   every call advances A's shrinker one step, regenerates B from the new A
   and yields it; ok = false is returned exactly when A's shrinker returns
   ok = false, and the A phase is never left for the B phase. *)
C24_BindPhases ==
  [][(kindOf(sk.sh) = "bind" /\ sk'.calls = sk.calls + 1) => bindEffect]_vars

\* a Bind shrinker after four calls, in the A phase, that has regenerated B
\* twice
C24_Witness ==
  /\ kindOf(sk.sh) = "bind" /\ sk.sh.state = 1 /\ sk.sh.ok
  /\ sk.calls = 4
  /\ sk.r.pos = 2
(* C25: Filter's Generate draws from the inner generator at most max_tries
   times, a max_tries <= 0 counting as 1000; when no attempt satisfies pred
   it returns the zero value together with a shrinker whose every call
   returns ok = false. *)
C25_FilterExhaustion ==
  /\ sk.r.pos <= (IF sk.given <= 0 THEN 1000 ELSE sk.given)
  /\ (sk.pc = "returned" /\ ~sk.okv) =>
       /\ sk.r.pos = (IF sk.given <= 0 THEN 1000 ELSE sk.given)
       /\ sk.val = 0
       /\ sk.yields = 0
       /\ sk.calls >= 1 => ~sk.sh.ok

\* Generate gave up after 1000 attempts for a max_tries of 0, and the
\* shrinker it returned was called twice
C25_Witness ==
  /\ sk.pc = "returned" /\ ~sk.okv
  /\ sk.given = 0 /\ sk.r.pos = 1000
  /\ sk.calls = FilterCalls
(* C26: a negative length handed to ArrayOf is reported by a fatal abort of
   the property: for such a generator no value is generated and no example
   subtest runs. *)
C26_NegativeLengthAborts ==
  sk.n < 0 => (~sk.generated /\ sk.subtests = 0)
\* the subtests of example ex in the order they ran (sequential mode)
subtestsOf(ex) == SelectSeq(obs.log, LAMBDA e : e.name.ex = ex)

\* the value of the last subtest of q that failed; q starts with the failed
\* subtest of the generated value
RECURSIVE lastFailed(_)
lastFailed(q) ==
  IF ~q[Len(q)].passed THEN q[Len(q)].val ELSE lastFailed(SubSeq(q, 1, Len(q) - 1))

(* C27: in the shrink loop the first call of the shrinker receives
   accept = true and every later call receives accept = true exactly when
   the subtest of the candidate just before it failed; the minimum reported
   is the last candidate whose subtest failed, or the generated value when
   none did, so it is a value on which the body failed.  Sequential loop and
   workers of the parallel runner. *)
C27_AcceptFollowsSubtest ==
  /\ (cfg.Parallelism <= 1 /\ ctl.pc = "shrink") =>
       LET q == subtestsOf(ctl.i + 1)
       IN /\ ctl.acceptedPrev = ~q[Len(q)].passed
          /\ ctl.min = lastFailed(q)
          /\ ctl.steps = 0 => ctl.acceptedPrev
  /\ cfg.Parallelism <= 1 =>
       \A k \in 1..Len(obs.fatals) :
         obs.fatals[k].min = lastFailed(subtestsOf(obs.fatals[k].replay.run.ex))
  /\ \A w \in 1..Len(wk) :
       wk[w].pc = "shrink" =>
         /\ wk[w].steps = 0 => (wk[w].acceptedPrev /\ wk[w].min = wk[w].val)
         /\ (wk[w].steps > 0 /\ wk[w].shrink.ok) =>
              wk[w].acceptedPrev = bodyFails(wk[w].shrink.out)
         /\ bodyFails(wk[w].min)
  /\ \A k \in 1..Len(obs.fatals) : bodyFails(obs.fatals[k].min)

\* a sequential fatal report after a candidate that passed and a later one
\* that failed
C27_Witness ==
  /\ cfg.Parallelism <= 1
  /\ \E k \in 1..Len(obs.fatals) :
       LET q == subtestsOf(obs.fatals[k].replay.run.ex)
       IN /\ Len(q) >= 3
          /\ \E i, j \in 2..Len(q) : i < j /\ q[i].passed /\ ~q[j].passed
          /\ obs.fatals[k].min # q[1].val
\* the distance of an integer from the shrink target 0
distToZero(v) == IF v < 0 THEN 0 - v ELSE v

(* C28: for the integer generator over a range that contains 0, the minimum
   the runner keeps and reports for a failing generated value v is never
   farther from 0 than v: |min| <= |v|. *)
C28_MinNotFarther ==
  prop.g = "int" =>
    /\ cfg.Parallelism <= 1 =>
         \A k \in 1..Len(obs.fatals) :
           distToZero(obs.fatals[k].min)
             <= distToZero(subtestsOf(obs.fatals[k].replay.run.ex)[1].val)
    /\ \A w \in 1..Len(wk) :
         wk[w].pc = "shrink" => distToZero(wk[w].min) <= distToZero(wk[w].val)
\* the call just made had accept = false and followed a candidate
rejectedCall ==
  /\ sk.calls >= 1
  /\ sk.sh.ok
  /\ sk'.calls = sk.calls + 1
  /\ ~sk'.accepts[Len(sk'.accepts)]

(* C29: a call step(false) that follows a candidate c yields, when it yields,
   an alternative to c: a candidate other than c, taken from what was
   pending for the working base and not from a shrink of c.  Every shrinker:
   the queue-based ones, OneOf/Weighted, Map, Filter, Bind and the
   command-sequence shrinker. *)
C29_AlternativeAfterReject ==
  [][(rejectedCall /\ sk'.sh.ok) => sk'.sh.out # sk.sh.out]_vars
\* the distance of x from the shrink target of the integer shrinker s
distToTarget(s, x) ==
  Let(shrinkTarget(s.min, s.max), LAMBDA target :
      IF x < target THEN target - x ELSE x - target)

\* some candidate of the set f is strictly closer to the target than base
hasCloser(s, f, base) ==
  \E c \in f : distToTarget(s, c) < distToTarget(s, base)

(* C30: whenever grow of the integer shrinker is called on a base other than
   the shrink target, at initialisation and at every rebase, the frontier it
   leaves holds a candidate strictly closer to the target than the base. *)
C30_GrowProgress ==
  /\ [](sk.sh.kind = "int" /\ sk.calls = 0
          /\ sk.sh.cur # shrinkTarget(sk.sh.min, sk.sh.max)
        => hasCloser(sk.sh, Range(sk.sh.queue), sk.sh.cur))
  /\ [][(sk.sh.kind = "int" /\ sk'.sh.cur # sk.sh.cur
          /\ sk'.sh.cur # shrinkTarget(sk.sh.min, sk.sh.max))
        => hasCloser(sk'.sh,
                     Range(sk'.sh.queue)
                       \cup (IF sk'.sh.ok THEN {sk'.sh.out} ELSE {}),
                     sk'.sh.cur)]_vars
\* worker w is on its way to a subtest: it holds an index for which the
\* example subtest has not run yet, or it is inside a call of the shrinker
\* whose candidate's subtest follows
subtestAhead(w) ==
  wk[w].pc \in {"lock", "gen", "genval", "run", "inrun", "draw", "incand"}

(* C31: in parallel mode, once the calling goroutine has emitted the fatal
   report, no worker is executing or is going to start an example subtest or
   a shrink subtest of the property. *)
C31_FatalAfterWorkers ==
  (cfg.Parallelism > 1 /\ Len(obs.fatals) > 0) =>
    \A w \in DOMAIN wk : ~subtestAhead(w)
(* C32: runParallel does not deadlock, for every Examples >= 0 and
   Parallelism >= 2: a worker about to send a failure finds room in
   failureChan; failureChan is closed once, and only when every worker has
   left its loop; the calling goroutine leaves the receive loop, and when no
   body failed ForAll returns. *)
C32_NoDeadlock ==
  /\ [](\A w \in DOMAIN wk : wk[w].pc = "post" => Len(failureChan.q) < cfg.Examples)
  /\ [](failureChan.closed => \A w \in DOMAIN wk : wk[w].pc = "done")
  /\ [][failureChan.closed => failureChan'.closed]_vars
  /\ <>Ended
  /\ []((Ended /\ obs.failed = {}) => ctl.pc = "returned")

\* ForAll returned from a parallel run in which every example ran and none
\* failed, after the channel was closed
C32_Witness ==
  /\ cfg.Parallelism >= 2
  /\ cfg.Examples = MaxExamples
  /\ ctl.pc = "returned"
  /\ failureChan.closed
  /\ obs.failed = {}
  /\ \A i \in 1..cfg.Examples : BagIn(exName(i - 1), obs.runs)
(***************************************************************************)
(* SliceOf and String with a Size: the resolution of the size, the length  *)
(* drawn within it, and the shrinker in the hands of any caller.  The      *)
(* caller passes gen.Size{} to Generate, as the runner does.               *)
(***************************************************************************)
DefaultSliceMax == 16
DefaultStringMax == 32

\* if size.Min == 0 && size.Max == 0 { size.Min, size.Max = 0, default }
\* if sz.Min != 0 || sz.Max != 0 { size = sz }
\* if size.Max < size.Min { size.Max = size.Min }
resolveSize(size, sz, default) ==
  Let(IF size.Min = 0 /\ size.Max = 0 THEN [Min |-> 0, Max |-> default] ELSE size,
      LAMBDA s1 :
  Let(IF sz.Min # 0 \/ sz.Max # 0 THEN sz ELSE s1, LAMBDA s2 :
  IF s2.Max < s2.Min THEN [s2 EXCEPT !.Max = s2.Min] ELSE s2))

\* the sizes handed to a generator: every Size but the zero Size
Sizes(n) == [Min : 0..n, Max : 0..n] \ {[Min |-> 0, Max |-> 0]}

InitSized ==
  /\ shrinkStrategy \in Strategies
  /\ cs = Idle
  /\ RunnerOff
  /\ \/ \E size \in Sizes(MaxSliceLen) :
          \E rs \in {resolveSize(size, [Min |-> 0, Max |-> 0], DefaultSliceMax)} :
            \E n \in rs.Min..rs.Max : \E v \in [1..n -> -ElemMag..ElemMag] :
              sk = [size |-> rs]
                     @@ Harness(SliceOf(v, -ElemMag, ElemMag, shrinkStrategy))
     \/ \E size \in Sizes(MaxStrLen) :
          \E rs \in {resolveSize(size, [Min |-> 0, Max |-> 0], DefaultStringMax)} :
            \E n \in rs.Min..rs.Max : \E v \in [1..n -> 1..AlphaSize] :
              sk = [size |-> rs] @@ Harness(stringShrinkInit(v))

StepSized == \E accept \in BOOLEAN : ShStep(accept)

NextSized == StepSized

SpecSized == InitSized /\ [][NextSized]_vars

(***************************************************************************)
(* midpointTowards64 on machine integers.  The width of the integers is    *)
(* scaled down to IntBits bits: sums and differences wrap around as those  *)
(* of int64 (and of int) do.  The bisection is repeated from a towards b.  *)
(***************************************************************************)
IntBits == 6

MinInt == -Pow2(IntBits - 1)
MaxInt == Pow2(IntBits - 1) - 1

\* the machine integer that an exact sum or difference x is stored as
wrap(x) == ((x - MinInt) % Pow2(IntBits)) + MinInt

\* d := b - a; step := d / 2; if step == 0 { step = +1 or -1 }; return a + step
midpointTowards64(a, b) ==
  IF a = b THEN a
  ELSE Let(wrap(b - a), LAMBDA d :
       Let(quo2(d), LAMBDA step :
       wrap(a + (IF step = 0 THEN (IF d > 0 THEN 1 ELSE -1) ELSE step))))

InitMid ==
  /\ shrinkStrategy = ShrinkStrategyBFS
  /\ cs = Idle
  /\ RunnerOff
  /\ \E a \in MinInt..MaxInt, b \in MinInt..MaxInt :
       sk = [kind |-> "mid", a |-> a, b |-> b, series |-> a, n |-> 0]

\* series = midpointTowards64(series, target), as in the loop of grow
Bisect ==
  /\ sk.series # sk.b
  /\ sk.n < IntBits + 2
  /\ sk' = [sk EXCEPT !.series = midpointTowards64(sk.series, sk.b), !.n = @ + 1]
  /\ UNCHANGED <<shrinkStrategy, cs>>
  /\ UNCHANGED rvars

NextMid == Bisect

SpecMid == InitMid /\ [][NextMid]_vars

\* the values whose keys are in the dedup set of the shrinker s
seenValues(s) ==
  IF s.kind \in {"slice", "array"} THEN {Tail(k) : k \in s.seen} ELSE s.seen

\* the value of the candidate x, whatever its representation
valueOf(s, x) == IF s.kind \in {"slice", "array"} THEN x.e ELSE x

\* the zero value of the type of the candidates of s
zeroOf(s) ==
  CASE s.kind \in {"int", "uint"}    -> 0
    [] s.kind = "bool"               -> FALSE
    [] s.kind = "string"             -> <<>>
    [] s.kind \in {"slice", "array"} -> NilSlice

\* what a call has taken from the frontier and what it has left in it
frontierOf(n) == Range(n.queue) \cup (IF n.ok THEN {n.out} ELSE {})

\* step(true) after the candidate s.out, other than the working minimum,
\* gave n
rebaseEffect(s, n) ==
  /\ valueOf(n, n.cur) = valueOf(s, s.out)
  /\ s.seen \subseteq n.seen
  /\ \A x \in frontierOf(n) : valueOf(n, x) \notin seenValues(s)
  /\ seenValues(n) = seenValues(s) \cup {valueOf(n, x) : x \in frontierOf(n)}
  /\ frontierOf(n) = {} => (~n.ok /\ n.out = zeroOf(n))

\* step(false) gave n
rejectEffect(s, n) ==
  /\ n.cur = s.cur
  /\ n.seen = s.seen
  /\ IF s.queue = <<>>
     THEN ~n.ok /\ n.out = zeroOf(n) /\ n.queue = <<>>
     ELSE /\ n.ok
          /\ \/ n.out = Head(s.queue) /\ n.queue = Tail(s.queue)
             \/ /\ n.out = s.queue[Len(s.queue)]
                /\ n.queue = SubSeq(s.queue, 1, Len(s.queue) - 1)

(* C33: for the queue-based shrinkers, step(true) after a yielded candidate
   c other than the working minimum makes c the working minimum, drops the
   pending frontier and refills it with neighbours of c that were not in
   the dedup set, which only grows by them; step(false) leaves the working
   minimum and the dedup set alone and takes one pending candidate from the
   frontier; with an empty frontier the call returns the zero value and
   ok = false. *)
C33_StepFrame ==
  [][(sk'.calls = sk.calls + 1) =>
       /\ (/\ sk'.sh = Step(sk.sh, TRUE, shrinkStrategy)
           /\ sk.calls >= 1
           /\ sk.sh.ok
           /\ valueOf(sk.sh, sk.sh.out) # valueOf(sk.sh, sk.sh.cur))
          => rebaseEffect(sk.sh, sk'.sh)
       /\ (sk'.sh = Step(sk.sh, FALSE, shrinkStrategy))
          => rejectEffect(sk.sh, sk'.sh)]_vars
(***************************************************************************)
(* The integer shrinker in the hands of a caller that rejects every        *)
(* candidate and may write the strategy register between two calls.  The   *)
(* far start values need more bisections than growNeighbors makes.         *)
(***************************************************************************)
FarStart == 1000

InitReject ==
  /\ shrinkStrategy \in Strategies
  /\ cs = Idle
  /\ RunnerOff
  /\ \/ \E v \in -MaxMag..MaxMag, q \in IntRanges(-MaxMag, MaxMag) :
          sk = Harness(intShrinkInit(v, q[1], q[2]))
     \/ \E v \in {-FarStart, FarStart}, lo \in {-FarStart, 0}, hi \in {0, FarStart} :
          sk = Harness(intShrinkInit(v, lo, hi))

StepRejected == ShStep(FALSE)

NextReject ==
  \/ StepRejected
  \/ \E v \in {"bfs", "dfs", "random"} : SetShrinkStrategy(v)

SpecReject == InitReject /\ [][NextReject]_vars

\* the successive bisections from series towards target, at most n of them
RECURSIVE bisections(_, _, _)
bisections(series, target, n) ==
  IF n = 0 \/ series = target THEN <<>>
  ELSE <<midpointTowards(series, target)>>
         \o bisections(midpointTowards(series, target), target, n - 1)

\* q without the values outside lo..hi, the values of the set old and the
\* later occurrences of a value
RECURSIVE firstOccurrences(_, _, _, _)
firstOccurrences(q, old, lo, hi) ==
  IF q = <<>> THEN <<>>
  ELSE IF Head(q) \in old \/ Head(q) < lo \/ Head(q) > hi
       THEN firstOccurrences(Tail(q), old, lo, hi)
       ELSE <<Head(q)>> \o firstOccurrences(Tail(q), old \cup {Head(q)}, lo, hi)

\* the frontier of a start value as the order of the heuristics gives it:
\* the target, eight successive bisections from the start value towards the
\* target at most, the unit step, the bounds
initialFrontier(start, min, max) ==
  LET target == shrinkTarget(min, max)
  IN firstOccurrences(
       (IF start # target
        THEN <<target>> \o bisections(start, target, 8)
               \o <<stepTowards(start, target)>>
        ELSE <<>>) \o <<min, max>>,
       {start}, min, max)

reverse(q) == [i \in 1..Len(q) |-> q[Len(q) + 1 - i]]

isPrefix(p, q) == Len(p) <= Len(q) /\ p = SubSeq(q, 1, Len(p))

(* C34: when every candidate of the integer shrinker is rejected, under bfs
   the candidates come in the order of the initial frontier (the target, then
   up to eight successive bisections toward it, then the unit step, then min
   and max, without the values out of range or already seen) and under dfs
   the same candidates come in the reverse order; the strategy register is
   read at each pop, and a value other than "dfs" written to it behaves as
   bfs. *)
C34_FrontierOrder ==
  /\ []((sk.sh.kind = "int" /\ sk.accepts \subseteq {FALSE}) =>
          LET E == initialFrontier(sk.start, sk.sh.min, sk.sh.max)
          IN /\ sk.strats \subseteq {"bfs"} => isPrefix(sk.yielded, E)
             /\ sk.strats \subseteq {"dfs"} => isPrefix(sk.yielded, reverse(E))
             /\ sk.done => Len(sk.yielded) = Len(E))
  /\ [][(sk.sh.kind = "int" /\ sk'.sh.ok /\ sk' # sk
           /\ sk'.accepts \subseteq {FALSE}) =>
          sk'.sh.out = IF shrinkStrategy = "dfs"
                       THEN sk.sh.queue[Len(sk.sh.queue)]
                       ELSE Head(sk.sh.queue)]_vars
  /\ [][\A v \in {"bfs", "random"} :
          shrinkStrategy' = SetShrinkStrategyOf(v) => shrinkStrategy' = "bfs"]_vars
(* C35: every candidate yielded by the shrinker of Filter satisfies pred; an
   inner candidate that fails pred is passed over and is given to the inner
   shrinker as rejected (accept = false) at the next inner step; and the
   shrinker of Filter returns ok = false exactly when the inner shrinker
   does. *)
C35_FilterShrinker ==
  (kindOf(sk.sh) = "filter" /\ sk.calls >= 1) =>
    /\ \A i \in 1..Len(sk.sh.inner) :
         ~predFn(sk.sh.inner[i].out) /\ ~sk.sh.inner[i].next
    /\ sk.sh.ok => (predFn(sk.sh.out) /\ sk.sh.out = sk.sh.s.out)
    /\ sk.sh.ok <=> sk.sh.s.ok

\* a call that was given accept = true passed over an inner candidate
\* before it yielded
C35_Witness ==
  /\ kindOf(sk.sh) = "filter"
  /\ sk.calls >= 1
  /\ sk.accepts[Len(sk.accepts)]
  /\ sk.sh.ok
  /\ Len(sk.sh.inner) >= 1

(* C36: for the String and SliceOf shrinkers, once the empty value has been
   yielded and the next call accepts it, that call and the calls after it
   yield no candidate, so that the empty value stays the last failing
   candidate of the caller. *)
C36_EmptyIsFinal ==
  [][(/\ sk.sh.kind \in {"string", "slice"}
      /\ sk.calls >= 1
      /\ sk.sh.ok
      /\ valueOf(sk.sh, sk.sh.out) = <<>>
      /\ sk'.calls = sk.calls + 1
      /\ sk'.sh = Step(sk.sh, TRUE, shrinkStrategy))
     => ~sk'.sh.ok]_vars
(* C37: every candidate yielded by the shrinker of a String or SliceOf
   generator has a length within the resolved [Min, Max] of the generator's
   size; no candidate is shorter than the configured minimum length. *)
C37_LengthWithinSize ==
  (sk.calls >= 1 /\ sk.sh.ok) =>
    /\ Len(valueOf(sk.sh, sk.sh.out)) >= sk.size.Min
    /\ Len(valueOf(sk.sh, sk.sh.out)) <= sk.size.Max
\* the positions at which the sequences a and b of one length differ
diffPositions(a, b) == {i \in 1..Len(a) : a[i] # b[i]}

(* C38: for ArrayOf, each candidate has the length of the generated value
   and differs from the working minimum at one position; when a candidate is
   accepted the per-element shrinkers are discarded, and the calls that
   follow yield the candidates that were pending in the frontier at that
   moment, until none is left. *)
C38_ArrayRemainingFrontier ==
  /\ []((sk.sh.kind = "array" /\ sk.calls >= 1 /\ sk.sh.ok) =>
          /\ Len(sk.sh.out.e) = Len(sk.start.e)
          /\ Cardinality(diffPositions(sk.sh.out.e, sk.sh.cur.e)) = 1)
  /\ [][(/\ sk.sh.kind = "array"
          /\ sk.calls >= 1
          /\ sk.sh.ok
          /\ sk.sh.out.e # sk.sh.cur.e
          /\ sk'.calls = sk.calls + 1
          /\ sk'.sh = Step(sk.sh, TRUE, shrinkStrategy))
         => /\ \A i \in DOMAIN sk'.sh.shks : sk'.sh.shks[i] = <<>>
            /\ IF sk.sh.queue = <<>>
               THEN ~sk'.sh.ok
               ELSE /\ sk'.sh.ok
                    /\ sk'.sh.out \in Range(sk.sh.queue)
                    /\ Range(sk'.sh.queue) \subseteq Range(sk.sh.queue)]_vars
(* C39: every candidate yielded by the integer shrinker initialised with
   (start, min, max), min <= max, lies in [min, max], whatever the flags it
   is given and whatever was written to the strategy register; and the start
   value it returns is start itself when start lies in [min, max]. *)
C39_CandidatesInRange ==
  sk.sh.kind = "int" =>
    /\ \A i \in 1..Len(sk.yielded) :
         sk.yielded[i] >= sk.sh.min /\ sk.yielded[i] <= sk.sh.max
    /\ sk.sh.ok => (sk.sh.out >= sk.sh.min /\ sk.sh.out <= sk.sh.max)
    /\ \A v \in sk.sh.min..sk.sh.max :
         intShrinkInit(v, sk.sh.min, sk.sh.max).out = v

\* an integer shrinker over a range that does not hold 0 that was rebased,
\* was called under both strategies and has yielded two candidates
C39_Witness ==
  /\ sk.sh.kind = "int"
  /\ sk.sh.min > 0
  /\ Len(sk.yielded) >= 2
  /\ sk.sh.cur # sk.start
  /\ sk.strats = {"bfs", "dfs"}
\* m lies between a and b, bounds included
between(a, m, b) == (a <= m /\ m <= b) \/ (b <= m /\ m <= a)

(* C40: for all integers a # b, midpointTowards(a, b) differs from a, lies
   between a and b inclusive and is strictly closer to b than a is, and it is
   b when |a - b| = 1; midpointTowards(a, a) = a; so a repeated bisection
   from any base reaches the target. *)
C40_MidpointProgress ==
  sk.kind = "mid" =>
    LET a == sk.series
        b == sk.b
        m == midpointTowards64(a, b)
        dist(x, y) == IF x < y THEN y - x ELSE x - y
    IN /\ midpointTowards64(a, a) = a
       /\ a # b =>
            /\ m # a
            /\ between(a, m, b)
            /\ dist(m, b) < dist(a, b)
            /\ dist(a, b) = 1 => m = b
       /\ sk.n = IntBits + 2 => a = b
====
